---- MODULE Spec2Model ----
(***************************************************************************)
(* Credit-installment bookkeeping of the expense tracker: the hosted       *)
(* transactions table, the add / edit transaction forms that write to it,  *)
(* the delete handler and the payInstallment server action; the           *)
(* aggregation functions of the reports page and of the dashboard; the     *)
(* useTransactions hook that fetches the list; the chat panel and the      *)
(* stream transform of /api/chat; the middleware.                          *)
(*                                                                         *)
(* Money is held in minor units (cents).  A JavaScript quotient that the   *)
(* client sends is kept exact as a ratio; the DECIMAL(12,2) columns round  *)
(* it when the row is written.                                             *)
(***************************************************************************)
EXTENDS Integers, Sequences, FiniteSets, TLC

\* ---------------------------------------------------------------- bounds
MaxCreates == 1       \* rows inserted through the add form
MaxPayments == 2      \* rows inserted by payInstallment
MaxClock == 1         \* wall-clock instants after the initial one
MaxEdits == 1         \* successful edit-form updates

\* ------------------------------------------------------ program constants
MinInstallments == 1
MaxInstallments == 24
MinDescription == 2

\* Absent value of an optional numeric field: undefined in a form, NULL in
\* a nullable column.
NULL == 0 - 1
\* NULL of a nullable text column.
NullText == "<null>"

Users == {"u1", "u2"}
NoSession == "anon"
\* the user whose browser holds the forms and the transaction list
userId == "u1"
Procs == {1, 2}

Types == {"income", "expense"}

\* ------------------------------------------------------------ form inputs
AmountInputs == {0, 2}
InstallmentInputs == {NULL, 0, 1, 3, 4, 25}
DescriptionInputs == {"rent"}
CategoryInputs == {"", "food"}

VARIABLES
    store,      \* the transactions table: id -> row
    nextId,     \* number of ids handed out by gen_random_uuid()
    payments,   \* number of rows inserted by payInstallment
    clock,      \* the latest reading of the wall clock
    pay,        \* per payInstallment call: position and local variables
    response,   \* what the handler that finished last reported
    ledger,     \* per row id: decrements written and payments inserted
    edits,      \* successful edit-form updates so far
    transactions,   \* the list a page hands to its aggregation functions
    view,       \* what the page that rendered last computed from it
    swr,        \* the useTransactions hook: fetches, retries, refreshes
    chat,       \* the chat panel reading the answer stream of /api/chat
    relay,      \* the transform of /api/chat relaying the upstream events
    requests    \* the requests the middleware has answered, the latest last

vars == <<store, nextId, payments, clock, pay, response, ledger, edits,
          transactions, view, swr, chat, relay, requests>>

\* the browser side that reads the table
clientVars == <<transactions, view, swr, chat, relay, requests>>

\* the table and the handlers that write to it
bookVars == <<store, nextId, payments, clock, pay, response, ledger, edits>>

\* ------------------------------------------------------------ the table
Columns ==
    {"user_id", "amount", "description", "date", "type", "category", "notes",
     "is_credit", "installments", "original_amount", "remaining_installments"}

\* a JavaScript number a / n, kept exact
Ratio(a, n) == [num |-> a, den |-> n]

\* DECIMAL(12,2): a non-negative ratio of cents rounded to a whole cent,
\* ties away from zero
ToDecimal2_truncate(q) == q.num \div q.den

ToDecimal2(q) == (2 * q.num + q.den) \div (2 * q.den)

\* value a column takes when an insert does not mention it
ColumnDefault(k) ==
    CASE k = "is_credit" -> FALSE
      [] k \in {"category", "notes"} -> NullText
      [] OTHER -> NULL

\* value a column stores for a value sent by the client
Coerce(k, v) ==
    IF k \in {"amount", "original_amount"} THEN ToDecimal2(v) ELSE v

\* insert(payload): columns absent from the payload take their default
InsertRow(payload) ==
    [k \in Columns |->
        IF k \in DOMAIN payload THEN Coerce(k, payload[k]) ELSE ColumnDefault(k)]

\* update(payload): columns absent from the payload keep their value
UpdateRow(row, payload) ==
    [k \in Columns |->
        IF k \in DOMAIN payload THEN Coerce(k, payload[k]) ELSE row[k]]

Uuid(n) == "t" \o ToString(n)

Ids == DOMAIN store

InFlight == Cardinality({p \in Procs : pay[p].pc # "idle"})

\* the add form may insert one more row
CanCreate == nextId - payments < MaxCreates

\* one more call may run to its insert, beyond the calls already in flight
CanPay == payments + InFlight < MaxPayments

\* the row payInstallment has read, before it has read one
NoTransaction ==
    [amount |-> NULL, description |-> "", category |-> NullText,
     remaining_installments |-> NULL]

Idle == [pc |-> "idle", caller |-> NoSession, id |-> "",
         transaction |-> NoTransaction]

\* what a handler reports: how it ended, the writes it sent to the store
\* and the session refreshes it asked for
Report(result, writes, refreshes) ==
    [result |-> result, writes |-> writes, refreshes |-> refreshes]

\* no page has rendered
NoView == [page |-> "none"]

\* the hook before its component mounts
Unmounted == [pc |-> "unmounted"]

\* no chat message has been sent
NoChat == [pc |-> "none"]

\* no request has reached /api/chat
NoRelay == [pc |-> "none"]

Init ==
    /\ store = [i \in {} |-> 0]
    /\ nextId = 0
    /\ payments = 0
    /\ clock = 0
    /\ pay = [p \in Procs |-> Idle]
    /\ response = Report("none", 0, 0)
    /\ ledger = [i \in {} |-> 0]
    /\ edits = 0
    /\ transactions = <<>>
    /\ view = NoView
    /\ swr = Unmounted
    /\ chat = NoChat
    /\ relay = NoRelay
    /\ requests = <<>>

\* ------------------------------------------------------------- the forms
formSchema_withoutRefine(v) ==
    /\ v.amount > 0
    /\ Len(v.description) >= MinDescription
    /\ v.type \in Types
    /\ \/ v.installments = NULL
       \/ v.installments >= MinInstallments /\ v.installments <= MaxInstallments

\* formSchema: the zod schema shared by the add, quick-add and edit forms
formSchema(v) ==
    /\ v.amount > 0
    /\ Len(v.description) >= MinDescription
    /\ v.type \in Types
    /\ \/ v.installments = NULL
       \/ v.installments >= MinInstallments /\ v.installments <= MaxInstallments
    /\ ~v.isCredit \/ (v.installments # NULL /\ v.installments # 0)

\* JavaScript (x || 1) for an optional number
OrOne(x) == IF x = NULL \/ x = 0 THEN 1 ELSE x

\* JavaScript (s || null) for an optional string
OrNull(s) == IF s = "" \/ s = NullText THEN NullText ELSE s

isCreditPurchase(v) == v.type = "expense" /\ v.isCredit

transactionAmount_undivided(v) == Ratio(v.amount, 1)

\* the amount stored: one installment of a credit purchase, else the amount
transactionAmount(v) ==
    IF isCreditPurchase(v)
    THEN Ratio(v.amount, OrOne(v.installments))
    ELSE Ratio(v.amount, 1)

\* the NewTransaction object onSubmit builds; a key whose value is
\* undefined is not part of the request body
newTransaction(v, now) ==
    LET common ==
            [amount |-> transactionAmount(v),
             description |-> v.description,
             date |-> now,
             type |-> v.type,
             category |-> OrNull(v.category),
             notes |-> OrNull(v.notes)]
        credit ==
            [is_credit |-> TRUE,
             installments |-> v.installments,
             original_amount |-> Ratio(v.amount, 1),
             remaining_installments |-> OrOne(v.installments) - 1]
    IN  IF isCreditPurchase(v) THEN common @@ credit ELSE common

\* values a user can type into an empty form
AddValues ==
    [amount : AmountInputs, description : DescriptionInputs, type : Types,
     category : CategoryInputs, notes : {""}, isCredit : BOOLEAN,
     installments : InstallmentInputs]

\* defaultValues of the edit form for an existing row
defaultValues(row) ==
    [amount |-> row.amount,
     description |-> row.description,
     type |-> row.type,
     category |-> IF row.category = NullText THEN "" ELSE row.category,
     notes |-> IF row.notes = NullText THEN "" ELSE row.notes,
     isCredit |-> row.is_credit,
     installments |-> IF row.installments = 0 THEN NULL ELSE row.installments]

\* values the edit form can hold at submit: the defaults, with the type,
\* the credit box and the installments possibly changed
EditValues(row) ==
    LET d == defaultValues(row)
    IN  {[d EXCEPT !.type = t, !.isCredit = c, !.installments = n] :
            t \in Types, c \in BOOLEAN,
            n \in InstallmentInputs \cup {d.installments}}

\* the body of onSubmit after validation: session check, one write, and the
\* handling of the store's answer.  write is the store after a successful
\* write, done the bookkeeping that goes with it.
Submission(write, done) ==
    \E hasSession \in BOOLEAN, refreshed \in BOOLEAN :
        LET r0 == IF hasSession THEN 0 ELSE 1
        IN  IF ~hasSession /\ ~refreshed
            THEN /\ response' = Report("login", 0, 1)
                 /\ UNCHANGED <<store, nextId, ledger, edits>>
            ELSE \/ /\ response' = Report("ok", 1, r0)
                    /\ store' = write
                    /\ done
                 \/ \E refreshedAgain \in BOOLEAN :
                        /\ response' = Report(IF refreshedAgain THEN "tryAgain" ELSE "login",
                                          1, r0 + 1)
                        /\ UNCHANGED <<store, nextId, ledger, edits>>
                 \/ /\ response' = Report("error", 1, r0)
                    /\ UNCHANGED <<store, nextId, ledger, edits>>

\* handleSubmit(onSubmit) with values the resolver rejects: onSubmit is not run
Rejected ==
    /\ response' = Report("invalid", 0, 0)
    /\ UNCHANGED <<store, nextId, ledger, edits>>

\* one submission of an add form holding the values v, its date left at
\* the default, new Date()
Add(v) ==
    LET id == Uuid(nextId + 1)
    IN  /\ IF ~formSchema(v) THEN Rejected
           ELSE Submission(
                  (id :> InsertRow(newTransaction(v, clock) @@ [user_id |-> userId])) @@ store,
                  /\ nextId' = nextId + 1
                  /\ ledger' = (id :> [dec |-> 0, paid |-> 0]) @@ ledger
                  /\ UNCHANGED edits)
        /\ UNCHANGED <<payments, clock, pay>>
        /\ UNCHANGED clientVars

\* one submission of the edit form opened on row id, holding the values v
Edit(id, v) ==
    /\ IF ~formSchema(v) THEN Rejected
       ELSE Submission(
              [store EXCEPT ![id] = UpdateRow(@, newTransaction(v, @.date))],
              /\ edits' = edits + 1
              /\ UNCHANGED <<nextId, ledger>>)
    /\ UNCHANGED <<payments, clock, pay>>
    /\ UNCHANGED clientVars

\* TransactionForm without a transaction prop: add
onSubmit ==
    /\ CanCreate
    /\ \E v \in AddValues : Add(v)

\* QuickTransactionForm: add
quickOnSubmit ==
    /\ CanCreate
    /\ \E v \in AddValues : Add(v)

\* TransactionForm opened from the transaction list on one of the user's rows
onSubmitEdit ==
    \E id \in Ids :
        /\ store[id].user_id = userId
        /\ edits < MaxEdits
        /\ \E v \in EditValues(store[id]) : Edit(id, v)

\* ------------------------------------------------------ delete handler
handleDelete ==
    \E id \in Ids, deleteError \in BOOLEAN :
        /\ store[id].user_id = userId
        /\ store' = IF deleteError THEN store
                    ELSE [i \in Ids \ {id} |-> store[i]]
        /\ UNCHANGED <<nextId, payments, clock, pay, response, ledger, edits>>
        /\ UNCHANGED clientVars

\* ------------------------------------------------------- payInstallment
AuthFailed == "Authentication failed."
FetchFailed == "Failed to fetch transaction details."
NotFound == "Credit transaction not found or access denied."
NoneRemaining == "No remaining installments to pay."
UpdateFailed == "Failed to update installment count."
InsertFailed == "Failed to record payment transaction. Installment count might be incorrect."
Paid == "Installment paid successfully."

\* the call returns { success, message } after sending that many writes
Return(p, message, writes) ==
    /\ pay' = [pay EXCEPT ![p] = Idle]
    /\ response' = Report(message, writes, 0)

noneRemaining_nullOnly(remaining) == remaining = NULL

\* JavaScript (!remaining || remaining <= 0) for a nullable count
noneRemaining(remaining) == remaining = NULL \/ remaining <= 0

Selected_anyOwner(caller, transactionId) ==
    {i \in Ids : i = transactionId /\ store[i].is_credit = TRUE}

\* rows the select of step 2 returns
Selected(caller, transactionId) ==
    {i \in Ids : /\ i = transactionId
                 /\ store[i].user_id = caller
                 /\ store[i].is_credit = TRUE}

\* steps 1 to 3 of a call by caller for transactionId: read the session
\* from the cookies, fetch the credit transaction, check that installments
\* remain
Fetch(p, caller, transactionId, fetchError) ==
        /\ pay[p].pc = "idle"
        /\ CanPay
        /\ LET rows == Selected(caller, transactionId)
           IN  IF caller = NoSession THEN Return(p, AuthFailed, 0)
               ELSE IF fetchError THEN Return(p, FetchFailed, 0)
               ELSE IF rows = {} THEN Return(p, NotFound, 0)
               ELSE LET t == store[transactionId]
                    IN  IF noneRemaining(t.remaining_installments)
                        THEN Return(p, NoneRemaining, 0)
                        ELSE /\ pay' = [pay EXCEPT ![p] =
                                    [pc |-> "update", caller |-> caller,
                                     id |-> transactionId,
                                     transaction |->
                                       [amount |-> t.amount,
                                        description |-> t.description,
                                        category |-> t.category,
                                        remaining_installments |-> t.remaining_installments]]]
                             /\ UNCHANGED response
        /\ UNCHANGED <<store, nextId, payments, clock, ledger, edits>>
        /\ UNCHANGED clientVars

payInstallment_fetch(p) ==
    \E caller \in Users \cup {NoSession}, transactionId \in Ids,
       fetchError \in BOOLEAN :
        Fetch(p, caller, transactionId, fetchError)

newRemainingInstallments_same(p) == pay[p].transaction.remaining_installments

newRemainingInstallments(p) == pay[p].transaction.remaining_installments - 1

\* step 4: write the decremented count to the original transaction
payInstallment_update(p) ==
    \E updateError \in BOOLEAN :
        /\ pay[p].pc = "update"
        /\ IF updateError
           THEN /\ Return(p, UpdateFailed, 1)
                /\ UNCHANGED <<store, ledger>>
           ELSE LET id == pay[p].id
                    hit == id \in Ids /\ store[id].user_id = pay[p].caller
                IN  /\ pay' = [pay EXCEPT ![p].pc = "insert"]
                    /\ UNCHANGED response
                    /\ IF hit
                       THEN /\ store' = [store EXCEPT ![id] = UpdateRow(@,
                                    [remaining_installments |-> newRemainingInstallments(p)])]
                            /\ ledger' = [ledger EXCEPT ![id].dec = @ + 1]
                       ELSE UNCHANGED <<store, ledger>>
        /\ UNCHANGED <<nextId, payments, clock, edits>>
        /\ UNCHANGED clientVars

\* the row step 5 inserts for the payment, now being new Date()
paymentTransaction(p, now) ==
    [user_id |-> pay[p].caller,
     amount |-> Ratio(pay[p].transaction.amount, 1),
     description |-> "Installment Payment for: " \o pay[p].transaction.description,
     date |-> now,
     type |-> "expense",
     category |-> pay[p].transaction.category,
     is_credit |-> FALSE,
     notes |-> "Payment for original transaction ID: " \o pay[p].id]

\* step 5: insert the payment as a plain expense
payInstallment_insert(p) ==
    \E insertError \in BOOLEAN, now \in clock .. MaxClock :
        /\ pay[p].pc = "insert"
        /\ clock' = now
        /\ IF insertError
           THEN /\ Return(p, InsertFailed, 2)
                /\ UNCHANGED <<store, nextId, payments, ledger>>
           ELSE LET new == Uuid(nextId + 1)
                IN  /\ Return(p, Paid, 2)
                    /\ store' = (new :> InsertRow(paymentTransaction(p, now))) @@ store
                    /\ nextId' = nextId + 1
                    /\ payments' = payments + 1
                    /\ ledger' = (new :> [dec |-> 0, paid |-> 0])
                                 @@ [ledger EXCEPT ![pay[p].id].paid = @ + 1]
        /\ UNCHANGED edits
        /\ UNCHANGED clientVars

Next ==
    \/ onSubmit
    \/ quickOnSubmit
    \/ onSubmitEdit
    \/ handleDelete
    \/ \E p \in Procs : payInstallment_fetch(p)
    \/ \E p \in Procs : payInstallment_update(p)
    \/ \E p \in Procs : payInstallment_insert(p)

Spec == Init /\ [][Next]_vars

\* ------------------------------------------- the add form over wide inputs
MaxAmount == 8       \* largest amount typed, in cents

WideValues ==
    [amount : 0 .. MaxAmount, description : DescriptionInputs, type : Types,
     category : {"food"}, notes : {""}, isCredit : BOOLEAN,
     installments : {NULL} \cup (0 .. MaxInstallments + 1)]

\* one submission of the add form into the empty table
onSubmitFirst ==
    /\ nextId = 0
    /\ \E v \in WideValues : Add(v)

SpecAmortize == Init /\ [][onSubmitFirst]_vars

\* ------------------------------------------------- the forms on their own
NextForms ==
    \/ onSubmit
    \/ quickOnSubmit
    \/ onSubmitEdit
    \/ handleDelete

SpecForms == Init /\ [][NextForms]_vars

\* ------------------------------------------------------------ properties
Abs(x) == IF x < 0 THEN 0 - x ELSE x

PaymentNote(id) == "Payment for original transaction ID: " \o id

\* the row of id is still as the call p read it
AsRead(p) ==
    LET id == pay[p].id
        t == pay[p].transaction
    IN  /\ id \in Ids
        /\ store[id].user_id = pay[p].caller
        /\ store[id].is_credit
        /\ store[id].amount = t.amount
        /\ store[id].category = t.category

\* C1: a payInstallment call by the owner on a credit transaction with
\* k > 0 remaining installments, both of whose writes succeed, changes the
\* store in exactly two ways: its update sets that row's
\* remaining_installments to k - 1 and touches nothing else, and its insert
\* adds exactly one row, a plain expense (is_credit false) with the row's
\* per-installment amount and category, the current time as its date and a
\* note holding the row's id.
C1_PayChangesExactlyTwoThings ==
    [][\A p \in Procs :
        LET id == pay[p].id
            k == pay[p].transaction.remaining_installments
        IN  /\ (/\ pay[p].pc = "update" /\ pay'[p].pc = "insert"
                /\ AsRead(p) /\ store[id].remaining_installments = k)
               => /\ k > 0
                  /\ store' = [store EXCEPT ![id].remaining_installments = k - 1]
            /\ (/\ pay[p].pc = "insert" /\ pay'[p].pc = "idle"
                /\ response'.result = Paid /\ AsRead(p))
               => \E new \in DOMAIN store' \ Ids :
                    /\ DOMAIN store' = Ids \cup {new}
                    /\ \A i \in Ids : store'[i] = store[i]
                    /\ store'[new].type = "expense"
                    /\ store'[new].is_credit = FALSE
                    /\ store'[new].amount = store[id].amount
                    /\ store'[new].category = store[id].category
                    /\ store'[new].date = clock'
                    /\ store'[new].notes = PaymentNote(id)
                    /\ store'[new].user_id = store[id].user_id
    ]_vars

\* a call has paid an installment of a credit transaction that nothing else
\* touched: one decrement, one payment row dated after the purchase
C1_Witness ==
    /\ response.result = Paid
    /\ \E id \in Ids, new \in Ids :
        /\ store[id].is_credit
        /\ ledger[id] = [dec |-> 1, paid |-> 1]
        /\ store[id].remaining_installments = store[id].installments - 2
        /\ store[new].notes = PaymentNote(id)
        /\ store[new].date = 1
        /\ edits = 0

\* C2: a payInstallment call by the owner on a credit transaction whose
\* remaining_installments is 0, whose read succeeds, returns "No remaining
\* installments to pay." having sent no write, and leaves the store as it
\* was.
C2_NothingLeftToPay ==
    [][\A p \in Procs, caller \in Users, id \in Ids :
        (/\ store[id].user_id = caller
         /\ store[id].is_credit
         /\ store[id].remaining_installments = 0
         /\ Fetch(p, caller, id, FALSE))
        => /\ response' = Report(NoneRemaining, 0, 0)
           /\ store' = store
           /\ pay'[p].pc = "idle"
    ]_vars

\* a call on a fully paid credit transaction has just been turned down
C2_Witness ==
    /\ response = Report(NoneRemaining, 0, 0)
    /\ \E id \in Ids :
        /\ store[id].is_credit
        /\ store[id].remaining_installments = 0
        /\ store[id].installments >= MinInstallments

\* the row of id is a credit purchase as the add form created it
Untouched(id) ==
    /\ edits = 0
    /\ store[id].is_credit
    /\ store[id].installments >= MinInstallments

\* C3: for a credit transaction created with n installments, once n - 1
\* payInstallment calls have succeeded its remaining_installments is 0, and
\* no further call succeeds: the payments recorded for it never exceed
\* n - 1.
C3_PaidOffAfterNMinusOne ==
    \A id \in Ids :
        Untouched(id) =>
            /\ ledger[id].paid <= store[id].installments - 1
            /\ (ledger[id].paid = store[id].installments - 1 /\ InFlight = 0)
               => store[id].remaining_installments = 0

\* C4: whenever no payInstallment call is in progress, the payment rows
\* recorded for a transaction are as many as the decrements applied to it.
C4_PaymentsMatchDecrements ==
    InFlight = 0 => \A id \in DOMAIN ledger : ledger[id].paid = ledger[id].dec

\* C5: a credit row is created with remaining_installments = installments - 1,
\* and no step (payment or edit-form save) that keeps the row increases its
\* remaining_installments, raises it from 0, or stops it being a credit row.
C5_RemainingNeverIncreases ==
    [][/\ \A id \in Ids' \ Ids :
            store'[id].is_credit
            => store'[id].remaining_installments = store'[id].installments - 1
       /\ \A id \in Ids \cap Ids' :
            store[id].is_credit
            => /\ store'[id].is_credit
               /\ store'[id].remaining_installments
                    <= store[id].remaining_installments
    ]_vars

\* C6: in every reachable state every credit row has installments >= 1 and
\* 0 <= remaining_installments <= installments.
C6_CreditRowsInRange ==
    \A id \in Ids :
        store[id].is_credit
        => /\ store[id].installments >= 1
           /\ store[id].remaining_installments >= 0
           /\ store[id].remaining_installments <= store[id].installments

\* v is a credit-purchase submission with installments missing or outside
\* 1..24, or with an amount that is not positive
InvalidCredit(v) ==
    /\ isCreditPurchase(v)
    /\ \/ v.installments = NULL
       \/ v.installments < 1
       \/ v.installments > 24
       \/ v.amount <= 0

\* the credit-purchase submissions among WideValues with a positive amount
\* and installments in 1..24
ValidCreditValues ==
    [amount : 1 .. MaxAmount, description : DescriptionInputs,
     type : {"expense"}, category : {"food"}, notes : {""},
     isCredit : {TRUE}, installments : 1 .. 24]

InvalidCreditValues == {v \in AddValues : InvalidCredit(v)}

\* the add form's submission of v stored exactly one row, with these credit
\* columns
StoredOne(v, amountOk(_)) ==
    \E new \in DOMAIN store' :
        /\ DOMAIN store' = {new}
        /\ amountOk(store'[new].amount)
        /\ store'[new].is_credit = TRUE
        /\ store'[new].installments = v.installments
        /\ store'[new].original_amount = v.amount
        /\ store'[new].remaining_installments = v.installments - 1
        /\ store'[new].type = "expense"

C8_WithinOneCent ==
    \A id \in Ids :
        store[id].is_credit
        => Abs(store[id].amount * store[id].installments
               - store[id].original_amount) <= 1

\* C8, with the bound the rounding gives: the stored per-installment amount times n is within n / 2
\* cents of the purchase amount A, half a cent for each installment.
C8_WithinHalfCentEach ==
    \A id \in Ids :
        store[id].is_credit
        => 2 * Abs(store[id].amount * store[id].installments
                   - store[id].original_amount) <= store[id].installments

\* a stored credit purchase whose installments add up to more than a cent
\* away from the purchase amount
C8_Witness ==
    \E id \in Ids :
        /\ store[id].is_credit
        /\ store[id].installments = 24
        /\ store[id].original_amount = 8
        /\ store[id].amount = 0

\* C9: a submission of the add form or of the edit form that is a credit
\* purchase with installments missing or outside 1..24, or with an amount
\* <= 0, is turned down as a validation error: no request is sent and the
\* store is unchanged.
C9_InvalidCreditRejected ==
    [][/\ \A v \in InvalidCreditValues :
            (InvalidCredit(v) /\ Add(v))
            => response' = Report("invalid", 0, 0) /\ store' = store
       /\ \A id \in Ids : \A v \in EditValues(store[id]) :
            (InvalidCredit(v) /\ Edit(id, v))
            => response' = Report("invalid", 0, 0) /\ store' = store
    ]_vars

\* a form has just turned a submission down while a credit row is stored
C9_Witness ==
    /\ response = Report("invalid", 0, 0)
    /\ \E id \in Ids : store[id].is_credit

\* C10: no income row is flagged is_credit or has a credit field set.
C10_IncomeNeverCredit ==
    \A id \in Ids :
        store[id].type = "income"
        => /\ store[id].is_credit = FALSE
           /\ store[id].installments = NULL
           /\ store[id].original_amount = NULL
           /\ store[id].remaining_installments = NULL

\* ---------------------------------------------------------------------
\* Reports: what the reports page and the dashboard compute from the
\* list of transactions.  Dates are whole days counted from 2024-01-01;
\* the text of a date column is <<year, month, day>> for a date
\* alone, <<year, month, day, 0>> for a timestamp at midnight, or <<>>
\* when it cannot be parsed.  Strings that the code builds and sorts are
\* sequences of UTF-16 code units.
\* ---------------------------------------------------------------------

\* the time value of an Invalid Date, and NaN among the numbers
NaN == NULL

IsLeap(y) == (y % 4 = 0 /\ y % 100 # 0) \/ y % 400 = 0

DaysInMonth(y, m) ==
    IF m = 2 THEN (IF IsLeap(y) THEN 29 ELSE 28)
    ELSE IF m \in {4, 6, 9, 11} THEN 30 ELSE 31

DaysInYear(y) == IF IsLeap(y) THEN 366 ELSE 365

RECURSIVE DaysBeforeYear(_)
DaysBeforeYear(y) ==
    IF y <= 2024 THEN 0 ELSE DaysBeforeYear(y - 1) + DaysInYear(y - 1)

RECURSIVE DaysBeforeMonth(_, _)
DaysBeforeMonth(y, m) ==
    IF m <= 1 THEN 0 ELSE DaysBeforeMonth(y, m - 1) + DaysInMonth(y, m - 1)

\* new Date(year, monthIndex, day), as a day number
DayNumber(y, m, d) == DaysBeforeYear(y) + DaysBeforeMonth(y, m) + (d - 1)

RECURSIVE YearOf(_, _)
YearOf(n, y) == IF n < DaysInYear(y) THEN <<y, n>> ELSE YearOf(n - DaysInYear(y), y + 1)

RECURSIVE MonthOf(_, _, _)
MonthOf(n, y, m) ==
    IF n < DaysInMonth(y, m) THEN <<m, n>> ELSE MonthOf(n - DaysInMonth(y, m), y, m + 1)

\* the calendar date <<year, month, day>> of a day number
ToYMD(n) ==
    LET yr == YearOf(n, 2024)
        mo == MonthOf(yr[2], yr[1], 1)
    IN <<yr[1], mo[1], mo[2] + 1>>

\* new Date(text): an unparseable text gives an Invalid Date
newDate(text) ==
    IF Len(text) \in {3, 4} THEN DayNumber(text[1], text[2], text[3]) ELSE NaN

\* new Date(text + 'T00:00:00Z'): only a date alone stays parseable
newDate_midnightUTC(text) ==
    IF Len(text) = 3 THEN DayNumber(text[1], text[2], text[3]) ELSE NaN

isValidDate(date) == date # NaN

getFullYear(date) == IF date = NaN THEN NaN ELSE ToYMD(date)[1]

\* the month index, January is 0
getMonth(date) == IF date = NaN THEN NaN ELSE ToYMD(date)[2] - 1

getDate(date) == IF date = NaN THEN NaN ELSE ToYMD(date)[3]

\* a + b in the code's floating point: NaN stays NaN
Plus(a, b) == IF a = NaN \/ b = NaN THEN NaN ELSE a + b

startOfMonth(date) == DayNumber(getFullYear(date), getMonth(date) + 1, 1)

endOfMonth(date) ==
    DayNumber(getFullYear(date), getMonth(date) + 1,
              DaysInMonth(getFullYear(date), getMonth(date) + 1))

RECURSIVE subMonths(_, _)
subMonths(date, k) ==
    IF k = 0 THEN date
    ELSE LET ymd == ToYMD(date)
             y == IF ymd[2] = 1 THEN ymd[1] - 1 ELSE ymd[1]
             m == IF ymd[2] = 1 THEN 12 ELSE ymd[2] - 1
             d == IF ymd[3] > DaysInMonth(y, m) THEN DaysInMonth(y, m) ELSE ymd[3]
         IN subMonths(DayNumber(y, m, d), k - 1)

subDays(date, k) == date - k

\* the day the pages render: new Date()
Today == DayNumber(2024, 10, 15)

\* code units
Hyphen == <<45>>
NaNText == <<78, 97, 78>>

RECURSIVE Digits(_)
Digits(n) == IF n < 10 THEN <<48 + n>> ELSE Digits(n \div 10) \o <<48 + (n % 10)>>

\* String(n) and `${n}`
String(n) == IF n = NaN THEN NaNText ELSE Digits(n)

RECURSIVE padStart(_, _, _)
padStart(text, width, fill) ==
    IF Len(text) >= width THEN text ELSE padStart(fill \o text, width, fill)

\* a < b in code-unit order, the order of Array.prototype.sort() without
\* a comparator
RECURSIVE TextLess(_, _)
TextLess(a, b) ==
    IF a = <<>> THEN b # <<>>
    ELSE IF b = <<>> THEN FALSE
    ELSE IF Head(a) # Head(b) THEN Head(a) < Head(b)
    ELSE TextLess(Tail(a), Tail(b))

\* Array.prototype.sort: stable, ordered by Less
SortBy(seq, Less(_, _)) ==
    LET Insert(sorted, x) ==
            LET k == Cardinality({i \in DOMAIN sorted : ~Less(x, sorted[i])})
            IN SubSeq(sorted, 1, k) \o <<x>> \o SubSeq(sorted, k + 1, Len(sorted))
        pass[i \in 0..Len(seq)] ==
            IF i = 0 THEN <<>> ELSE Insert(pass[i - 1], seq[i])
    IN pass[Len(seq)]

slice(seq, from, to) == SubSeq(seq, from + 1, IF to > Len(seq) THEN Len(seq) ELSE to)

reverse(seq) == [i \in 1..Len(seq) |-> seq[Len(seq) + 1 - i]]

\* an object is the sequence of its entries, in insertion order
HasKey(obj, k) == \E i \in DOMAIN obj : obj[i].key = k

KeyIndex(obj, k) == CHOOSE i \in DOMAIN obj : obj[i].key = k

ObjectKeys(obj) == [i \in DOMAIN obj |-> obj[i].key]

RECURSIVE Sum(_)
Sum(seq) == IF seq = <<>> THEN 0 ELSE Head(seq) + Sum(Tail(seq))

filter(seq, Keep(_)) ==
    LET pass[i \in 0..Len(seq)] ==
            IF i = 0 THEN <<>>
            ELSE IF Keep(seq[i]) THEN Append(pass[i - 1], seq[i]) ELSE pass[i - 1]
    IN pass[Len(seq)]

\* what a call gives back: a value, or an exception
Returned(value) == [threw |-> FALSE, value |-> value]
Threw == [threw |-> TRUE, value |-> <<>>]

\* -- calculateMonthlyData ---------------------------------------------

\* the entry of one month gains one amount
AddToMonth(monthlyData, monthKey, income, expense) ==
    LET withKey == IF HasKey(monthlyData, monthKey) THEN monthlyData
                   ELSE Append(monthlyData,
                               [key |-> monthKey, income |-> 0, expense |-> 0])
        i == KeyIndex(withKey, monthKey)
    IN [withKey EXCEPT ![i].income = @ + income, ![i].expense = @ + expense]

\* the reports page
calculateMonthlyData(ts) ==
    LET monthKey(t) == String(getFullYear(newDate(t.date))) \o Hyphen
                       \o String(Plus(getMonth(newDate(t.date)), 1))
        forEach[i \in 0..Len(ts)] ==
            IF i = 0 THEN <<>>
            ELSE IF ts[i].is_credit THEN forEach[i - 1]
            ELSE IF ts[i].type = "income"
                 THEN AddToMonth(forEach[i - 1], monthKey(ts[i]), ts[i].amount, 0)
            ELSE IF ts[i].type = "expense"
                 THEN AddToMonth(forEach[i - 1], monthKey(ts[i]), 0, ts[i].amount)
            ELSE AddToMonth(forEach[i - 1], monthKey(ts[i]), 0, 0)
    IN forEach[Len(ts)]

\* the dashboard
dashboard_calculateMonthlyData(ts) ==
    LET monthKey(t) == String(getFullYear(newDate(t.date))) \o Hyphen
                       \o padStart(String(Plus(getMonth(newDate(t.date)), 1)), 2, <<48>>)
        forEach[i \in 0..Len(ts)] ==
            IF i = 0 THEN <<>>
            ELSE IF ts[i].type = "income"
                 THEN AddToMonth(forEach[i - 1], monthKey(ts[i]), ts[i].amount, 0)
            ELSE AddToMonth(forEach[i - 1], monthKey(ts[i]), 0, ts[i].amount)
    IN forEach[Len(ts)]

\* the Overview chart, monthly: the keys sorted as text, the last six
\* text.split(separator)
RECURSIVE split(_, _)
split(text, separator) ==
    IF \A i \in DOMAIN text : text[i] # separator THEN <<text>>
    ELSE LET i == CHOOSE j \in DOMAIN text :
                      text[j] = separator /\ \A k \in 1..(j - 1) : text[k] # separator
         IN <<SubSeq(text, 1, i - 1)>> \o split(SubSeq(text, i + 1, Len(text)), separator)

IsDigit(c) == c >= 48 /\ c <= 57

\* Number(text): the digits read as a decimal number, anything else is NaN
RECURSIVE Number(_)
Number(text) ==
    IF text = <<>> THEN 0
    ELSE IF \E i \in DOMAIN text : ~IsDigit(text[i]) THEN NaN
    ELSE 10 * Number(SubSeq(text, 1, Len(text) - 1)) + (text[Len(text)] - 48)

Overview_sortedKeys(monthlyData) ==
    LET sortedKeys == SortBy(ObjectKeys(monthlyData), TextLess)
    IN slice(sortedKeys, IF Len(sortedKeys) > 6 THEN Len(sortedKeys) - 6 ELSE 0,
             Len(sortedKeys))

\* -- calculateSpendingTrends -------------------------------------------

isWithinInterval(date, start, end) == date # NaN /\ date >= start /\ date <= end

\* one of the months of the trend, named by a date in it
trendMonth(date) ==
    [month |-> <<getFullYear(date), getMonth(date) + 1>>,
     startDate |-> startOfMonth(date),
     endDate |-> endOfMonth(date)]

\* the last six months, the current one last
trendMonths == reverse([i \in 1..6 |-> trendMonth(subMonths(Today, i - 1))])

\* ((current - previous) / previous) * 100, kept exact
PercentChange(current, previous) == Ratio((current - previous) * 100, previous)

Percent(n) == Ratio(n, 1)

MonthTotal(month, income, expense) ==
    [month |-> month, income |-> income, expense |-> expense,
     savings |-> income - expense,
     savingsRate |-> IF income > 0 THEN Ratio((income - expense) * 100, income)
                     ELSE Percent(0)]

AmountsOf(seq) == Sum([i \in DOMAIN seq |-> seq[i].amount])

\* the rows of the list dated within a month of the trend
monthTransactions(ts, month) ==
    filter(ts, LAMBDA t : isWithinInterval(newDate(t.date), month.startDate, month.endDate))

\* the reports page: the totals of the six months
monthlyTotals(ts) ==
    [m \in DOMAIN trendMonths |->
        MonthTotal(trendMonths[m].month,
            AmountsOf(filter(monthTransactions(ts, trendMonths[m]),
                             LAMBDA t : t.type = "income")),
            AmountsOf(filter(monthTransactions(ts, trendMonths[m]),
                             LAMBDA t : t.type = "expense" /\ ~t.is_credit)))]

\* the reports page: the change from the month before
monthOverMonth(totals) ==
    IF Len(totals) >= 2
    THEN [monthlyTotals |-> totals,
          currentMonth |-> totals[Len(totals)],
          previousMonth |-> totals[Len(totals) - 1],
          incomeChange |->
              IF totals[Len(totals) - 1].income > 0
              THEN PercentChange(totals[Len(totals)].income,
                                 totals[Len(totals) - 1].income)
              ELSE Percent(100),
          expenseChange |->
              IF totals[Len(totals) - 1].expense > 0
              THEN PercentChange(totals[Len(totals)].expense,
                                 totals[Len(totals) - 1].expense)
              ELSE Percent(100)]
    ELSE [monthlyTotals |-> totals,
          currentMonth |-> totals[Len(totals)],
          previousMonth |-> NULL,
          incomeChange |-> Percent(0),
          expenseChange |-> Percent(0)]

\* the reports page
calculateSpendingTrends(ts) == monthOverMonth(monthlyTotals(ts))

\* the dashboard: the totals of the six months
dashboard_monthlyTotals(ts) ==
    [m \in DOMAIN trendMonths |->
        MonthTotal(trendMonths[m].month,
            AmountsOf(filter(monthTransactions(ts, trendMonths[m]),
                             LAMBDA t : t.type = "income")),
            AmountsOf(filter(monthTransactions(ts, trendMonths[m]),
                             LAMBDA t : t.type = "expense")))]

\* the dashboard: the change of one total
dashboard_change(current, previous) ==
    IF previous > 0 THEN PercentChange(current, previous)
    ELSE IF current > 0 THEN Percent(100) ELSE Percent(0)

\* the dashboard: the change from the month before
dashboard_monthOverMonth(totals) ==
    IF Len(totals) >= 2
    THEN [monthlyTotals |-> totals,
          currentMonth |-> totals[Len(totals)],
          previousMonth |-> totals[Len(totals) - 1],
          incomeChange |-> dashboard_change(totals[Len(totals)].income,
                                            totals[Len(totals) - 1].income),
          expenseChange |-> dashboard_change(totals[Len(totals)].expense,
                                             totals[Len(totals) - 1].expense)]
    ELSE [monthlyTotals |-> totals,
          currentMonth |-> totals[Len(totals)],
          previousMonth |-> NULL,
          incomeChange |-> IF totals[Len(totals)].income > 0 THEN Percent(100)
                           ELSE Percent(0),
          expenseChange |-> IF totals[Len(totals)].expense > 0 THEN Percent(100)
                            ELSE Percent(0)]

\* the dashboard
dashboard_calculateSpendingTrends(ts) == dashboard_monthOverMonth(dashboard_monthlyTotals(ts))

\* -- calculateTransactionStats ------------------------------------------

\* an object of numbers: the entry of key gains by, a new key goes last
Increment(obj, key, by) ==
    IF HasKey(obj, key)
    THEN [obj EXCEPT ![KeyIndex(obj, key)].value = @ + by]
    ELSE Append(obj, [key |-> key, value |-> by])

\* Object.entries(obj).sort((a, b) => b[1] - a[1])
SortedByValueDescending_unsorted(obj) == obj

SortedByValueDescending(obj) == SortBy(obj, LAMBDA a, b : a.value > b.value)

toLowerCase(text) ==
    [i \in DOMAIN text |-> IF text[i] >= 65 /\ text[i] <= 90 THEN text[i] + 32 ELSE text[i]]

RECURSIVE trim(_)
trim(text) ==
    IF text = <<>> THEN text
    ELSE IF Head(text) = 32 THEN trim(Tail(text))
    ELSE IF text[Len(text)] = 32 THEN trim(SubSeq(text, 1, Len(text) - 1))
    ELSE text

Text_Uncategorized == <<85, 110, 99, 97, 116, 101, 103, 111, 114, 105, 122, 101, 100>>
Text_NA == <<78, 47, 65>>                        \* "N/A"

\* value || fallback, for texts
OrText(text, fallback) == IF text = <<>> THEN fallback ELSE text

\* format(date, "EEEE"): the day of the week, Sunday is 0
Weekday(date) == (date + 1) % 7

\* format(date, "MMM d, yyyy") and format(date, "yyyy-MM-dd"): the date
DateLabel(date) == ToYMD(date)

NoLabel == <<>>                                  \* ""
InvalidDateLabel == <<NaN>>                      \* "Invalid Date"

differenceInDays(later, earlier) == later - earlier

emptyStats(ts) ==
    [totalTransactions |-> Len(ts),
     avgTransactionAmount |-> Ratio(0, 1),
     largestExpense |-> [amount |-> 0, description |-> <<>>, date |-> NoLabel,
                         category |-> <<>>],
     largestIncome |-> [amount |-> 0, description |-> <<>>, date |-> NoLabel,
                        category |-> <<>>],
     recentTransactions |-> <<>>,
     frequentCategories |-> <<>>,
     weekdayDistribution |-> <<>>,
     daysSinceFirstTransaction |-> 0]

frequentCategories(categoryCount) ==
    LET top == slice(SortedByValueDescending(categoryCount), 0, 5)
    IN [i \in DOMAIN top |-> [name |-> top[i].key, count |-> top[i].value]]

\* the reports page; format throws on an Invalid Date
calculateTransactionStats(ts) ==
    LET start == [threw |-> FALSE, oldestDate |-> Today, categoryCount |-> <<>>,
                  weekdayCount |-> <<>>,
                  largestExpense |-> emptyStats(ts).largestExpense,
                  largestIncome |-> emptyStats(ts).largestIncome]
        each(acc, t) ==
            LET transactionDate == newDate(t.date)
                largest == [amount |-> t.amount, description |-> t.description,
                            date |-> DateLabel(transactionDate),
                            category |-> OrText(t.category, Text_Uncategorized)]
            IN IF acc.threw \/ ~isValidDate(transactionDate)
               THEN [acc EXCEPT !.threw = TRUE]
               ELSE [threw |-> FALSE,
                     oldestDate |-> IF transactionDate < acc.oldestDate
                                    THEN transactionDate ELSE acc.oldestDate,
                     categoryCount |-> IF t.category # <<>>
                                       THEN Increment(acc.categoryCount, t.category, 1)
                                       ELSE acc.categoryCount,
                     weekdayCount |-> Increment(acc.weekdayCount,
                                                Weekday(transactionDate), 1),
                     largestExpense |->
                         IF t.type = "expense" /\ ~t.is_credit
                            /\ t.amount > acc.largestExpense.amount
                         THEN largest ELSE acc.largestExpense,
                     largestIncome |->
                         IF t.type = "income" /\ t.amount > acc.largestIncome.amount
                         THEN largest ELSE acc.largestIncome]
        forEach[i \in 0..Len(ts)] ==
            IF i = 0 THEN start ELSE each(forEach[i - 1], ts[i])
        done == forEach[Len(ts)]
        recent == slice(ts, 0, 5)
        cashFlowTransactions == filter(ts, LAMBDA t : ~t.is_credit)
    IN IF Len(ts) = 0 THEN Returned(emptyStats(ts))
       ELSE IF done.threw THEN Threw
       ELSE Returned(
           [totalTransactions |-> Len(ts),
            avgTransactionAmount |->
                IF Len(cashFlowTransactions) > 0
                THEN Ratio(AmountsOf(cashFlowTransactions), Len(cashFlowTransactions))
                ELSE Ratio(0, 1),
            largestExpense |-> done.largestExpense,
            largestIncome |-> done.largestIncome,
            recentTransactions |->
                [i \in DOMAIN recent |->
                    [amount |-> recent[i].amount,
                     description |-> recent[i].description,
                     date |-> DateLabel(newDate(recent[i].date)),
                     type |-> recent[i].type,
                     category |-> OrText(recent[i].category, Text_Uncategorized)]],
            frequentCategories |-> frequentCategories(done.categoryCount),
            weekdayDistribution |-> done.weekdayCount,
            daysSinceFirstTransaction |-> differenceInDays(Today, done.oldestDate)])

\* the dashboard; a row with an Invalid Date is skipped by the loop
dashboard_calculateTransactionStats(ts) ==
    LET start == [oldestDate |-> Today, categoryCount |-> <<>>,
                  weekdayCount |-> <<>>,
                  largestExpense |-> emptyStats(ts).largestExpense,
                  largestIncome |-> emptyStats(ts).largestIncome]
        each(acc, t) ==
            LET transactionDate == newDate(t.date)
                largest == [amount |-> t.amount,
                            description |-> OrText(t.description, Text_NA),
                            date |-> DateLabel(transactionDate),
                            category |-> OrText(t.category, Text_Uncategorized)]
            IN IF ~isValidDate(transactionDate) THEN acc
               ELSE [oldestDate |-> IF transactionDate < acc.oldestDate
                                    THEN transactionDate ELSE acc.oldestDate,
                     categoryCount |-> IF t.category # <<>>
                                       THEN Increment(acc.categoryCount,
                                                      toLowerCase(t.category), 1)
                                       ELSE acc.categoryCount,
                     weekdayCount |-> Increment(acc.weekdayCount,
                                                Weekday(transactionDate), 1),
                     largestExpense |->
                         IF t.type = "expense" /\ t.amount > acc.largestExpense.amount
                         THEN largest ELSE acc.largestExpense,
                     largestIncome |->
                         IF t.type = "income" /\ t.amount > acc.largestIncome.amount
                         THEN largest ELSE acc.largestIncome]
        forEach[i \in 0..Len(ts)] ==
            IF i = 0 THEN start ELSE each(forEach[i - 1], ts[i])
        done == forEach[Len(ts)]
        recent == slice(ts, 0, 5)
    IN IF Len(ts) = 0 THEN Returned(emptyStats(ts))
       ELSE Returned(
           [totalTransactions |-> Len(ts),
            avgTransactionAmount |-> Ratio(AmountsOf(ts), Len(ts)),
            largestExpense |-> done.largestExpense,
            largestIncome |-> done.largestIncome,
            recentTransactions |->
                [i \in DOMAIN recent |->
                    [amount |-> recent[i].amount,
                     description |-> OrText(recent[i].description, Text_NA),
                     date |-> IF isValidDate(newDate(recent[i].date))
                              THEN DateLabel(newDate(recent[i].date))
                              ELSE InvalidDateLabel,
                     type |-> recent[i].type,
                     category |-> OrText(recent[i].category, Text_Uncategorized)]],
            frequentCategories |-> frequentCategories(done.categoryCount),
            weekdayDistribution |-> done.weekdayCount,
            daysSinceFirstTransaction |-> differenceInDays(Today, done.oldestDate)])

\* -- calculateTopCategories ---------------------------------------------

Kinds == {"income", "expense", "all"}

topEntries(categories) ==
    LET top == slice(SortedByValueDescending(categories), 0, 5)
    IN [i \in DOMAIN top |-> [name |-> top[i].key, amount |-> top[i].value]]

\* the reports page
calculateTopCategories(ts, type) ==
    LET forEach[i \in 0..Len(ts)] ==
            IF i = 0 THEN <<>>
            ELSE IF ts[i].category = <<>> THEN forEach[i - 1]
            ELSE IF type # "all" /\ ts[i].type # type THEN forEach[i - 1]
            ELSE Increment(forEach[i - 1], ts[i].category, ts[i].amount)
    IN topEntries(forEach[Len(ts)])

\* the dashboard
dashboard_calculateTopCategories(ts, type) ==
    LET forEach[i \in 0..Len(ts)] ==
            IF i = 0 THEN <<>>
            ELSE IF ts[i].category = <<>> THEN forEach[i - 1]
            ELSE IF type # "all" /\ ts[i].type # type THEN forEach[i - 1]
            ELSE Increment(forEach[i - 1], toLowerCase(ts[i].category), ts[i].amount)
    IN topEntries(forEach[Len(ts)])

\* -- calculateDailySpending ---------------------------------------------

\* the days the chart shows
DaysShown == 30

\* the keys "yyyy-MM-dd" set to zero, today first
zeroDays ==
    [i \in 1..DaysShown |-> [key |-> DateLabel(subDays(Today, i - 1)), value |-> 0]]

\* dailySpending[dateKey] += amount, when the key is there
AddToDay(dailySpending, dateKey, amount) ==
    IF HasKey(dailySpending, dateKey) THEN Increment(dailySpending, dateKey, amount)
    ELSE dailySpending

\* format(parseISO(date), "MMM dd"): the month and the day
MonthDay(dateKey) == <<dateKey[2], dateKey[3]>>

\* Object.entries(dailySpending).map(...).reverse()
oldestFirst_unreversed(days) == days

oldestFirst(days) == reverse(days)

dailyEntries(dailySpending) ==
    oldestFirst([i \in DOMAIN dailySpending |->
                    [date |-> MonthDay(dailySpending[i].key),
                     amount |-> dailySpending[i].value]])

\* the reports page
calculateDailySpending(ts) ==
    LET thirtyDaysAgo == subDays(Today, 30)
        recentTransactions ==
            filter(ts, LAMBDA t : /\ isValidDate(newDate(t.date))
                                  /\ newDate(t.date) >= thirtyDaysAgo
                                  /\ t.type = "expense"
                                  /\ ~t.is_credit)
        forEach[i \in 0..Len(recentTransactions)] ==
            IF i = 0 THEN zeroDays
            ELSE AddToDay(forEach[i - 1],
                          DateLabel(newDate(recentTransactions[i].date)),
                          recentTransactions[i].amount)
    IN dailyEntries(forEach[Len(recentTransactions)])

\* the dashboard
dashboard_calculateDailySpending(ts) ==
    LET thirtyDaysAgo == subDays(Today, 30)
        recentTransactions ==
            filter(ts, LAMBDA t : /\ isValidDate(newDate(t.date))
                                  /\ newDate(t.date) >= thirtyDaysAgo
                                  /\ t.type = "expense")
        forEach[i \in 0..Len(recentTransactions)] ==
            IF i = 0 THEN zeroDays
            ELSE AddToDay(forEach[i - 1],
                          DateLabel(newDate(recentTransactions[i].date)),
                          recentTransactions[i].amount)
    IN dailyEntries(forEach[Len(recentTransactions)])

\* -- calculateRecurringExpenses -----------------------------------------

\* expensesByDescription[key].push(t), a new key goes last
PushTo(groups, key, t) ==
    IF HasKey(groups, key)
    THEN [groups EXCEPT ![KeyIndex(groups, key)].value = Append(@, t)]
    ELSE Append(groups, [key |-> key, value |-> <<t>>])

groupByDescription(expenses) ==
    LET forEach[i \in 0..Len(expenses)] ==
            IF i = 0 THEN <<>>
            ELSE PushTo(forEach[i - 1], trim(toLowerCase(expenses[i].description)),
                        expenses[i])
    IN forEach[Len(expenses)]

\* txns.length >= 3
isRecurring_twice(txns) == Len(txns) >= 2

isRecurring(txns) == Len(txns) >= 3

\* a.avgAmount > b.avgAmount
HigherAverage(a, b) == a.avgAmount.num * b.avgAmount.den > b.avgAmount.num * a.avgAmount.den

\* the reports page
calculateRecurringExpenses(ts) ==
    LET groups == groupByDescription(
                      filter(ts, LAMBDA t : t.type = "expense" /\ ~t.is_credit))
        qualifying == filter(groups, LAMBDA g : isRecurring(g.value))
        recurring == [i \in DOMAIN qualifying |->
            LET txns == qualifying[i].value
            IN [description |-> qualifying[i].key,
                frequency |-> IF Len(txns) >= 12 THEN "Monthly"
                              ELSE IF Len(txns) >= 4 THEN "Quarterly"
                              ELSE "Occasional",
                avgAmount |-> Ratio(AmountsOf(txns), Len(txns)),
                category |-> OrText(txns[1].category, Text_Uncategorized),
                occurrences |-> Len(txns)]]
    IN slice(SortBy(recurring, HigherAverage), 0, 10)

\* the dashboard
dashboard_calculateRecurringExpenses(ts) ==
    LET groups == groupByDescription(
                      filter(ts, LAMBDA t : t.type = "expense" /\ t.description # <<>>))
        qualifying == filter(groups, LAMBDA g : isRecurring(g.value))
        recurring == [i \in DOMAIN qualifying |->
            LET txns == qualifying[i].value
            IN [description |-> txns[1].description,
                frequency |-> IF Len(txns) >= 12 THEN "Monthly (est.)"
                              ELSE IF Len(txns) >= 4 THEN "Quarterly (est.)"
                              ELSE "Occasional",
                avgAmount |-> Ratio(AmountsOf(txns), Len(txns)),
                category |-> OrText(txns[1].category, Text_Uncategorized),
                occurrences |-> Len(txns)]]
    IN slice(SortBy(recurring, HigherAverage), 0, 10)

\* -- ExpenseStats ------------------------------------------------------

\* src/components/expense-stats.tsx: this month, last month, the change
expenseStatsView(ts) ==
    LET currentMonth == getMonth(Today)
        currentYear == getFullYear(Today)
        lastMonth == IF currentMonth - 1 < 0 THEN 11 ELSE currentMonth - 1
        lastMonthYear == IF currentMonth - 1 < 0 THEN currentYear - 1 ELSE currentYear
        inMonth(t, month, year) ==
            /\ getMonth(newDate_midnightUTC(t.date)) = month
            /\ getFullYear(newDate_midnightUTC(t.date)) = year
        thisMonthTransactions == filter(ts, LAMBDA t : inMonth(t, currentMonth, currentYear))
        lastMonthTransactions == filter(ts, LAMBDA t : inMonth(t, lastMonth, lastMonthYear))
        thisMonthExpenses ==
            AmountsOf(filter(thisMonthTransactions, LAMBDA t : t.type = "expense"))
        thisMonthIncome ==
            AmountsOf(filter(thisMonthTransactions, LAMBDA t : t.type = "income"))
        lastMonthExpenses ==
            AmountsOf(filter(lastMonthTransactions, LAMBDA t : t.type = "expense"))
    IN [page |-> "stats",
        thisMonthData |-> [expenses |-> thisMonthExpenses, income |-> thisMonthIncome,
                           balance |-> thisMonthIncome - thisMonthExpenses],
        lastMonthData |-> [expenses |-> lastMonthExpenses],
        monthOverMonthChange |->
            IF lastMonthExpenses = 0 THEN Percent(100)
            ELSE PercentChange(thisMonthExpenses, lastMonthExpenses)]

\* -- the lists the pages are given ------------------------------------

\* texts, as code units
Text_food == <<102, 111, 111, 100>>          \* "food"
Text_rent == <<114, 101, 110, 116>>          \* "rent"

\* a row of the list, with the columns the aggregation functions read
Transaction(amount, type, is_credit, date, category, description) ==
    [amount |-> amount, type |-> type, is_credit |-> is_credit, date |-> date,
     category |-> category, description |-> description,
     installments |-> NULL, original_amount |-> NULL,
     remaining_installments |-> NULL]

\* the row the add form stores for a purchase on credit
CreditPurchase(original_amount, installments, amount, date) ==
    [Transaction(amount, "expense", TRUE, date, Text_food, Text_rent)
        EXCEPT !.installments = installments,
               !.original_amount = original_amount,
               !.remaining_installments = installments - 1]

Unparseable == <<>>
LastMonth20 == <<2024, 9, 20>>
ThisMonth15 == <<2024, 10, 15>>
ThisMonthStamp == <<2024, 10, 15, 0>>

\* the text of the date k days before today
DaysAgo(k) == ToYMD(subDays(Today, k))

MaxRows == 2

RECURSIVE ListsUpTo(_, _)
ListsUpTo(S, n) ==
    IF n = 0 THEN {<<>>}
    ELSE LET shorter == ListsUpTo(S, n - 1)
         IN shorter \cup {Append(l, x) : l \in shorter, x \in S}

\* rows of either kind, credit or not, of this month, of last month, or
\* with a date that does not parse
MonthlyRows ==
    {Transaction(a, ty, cr, d, Text_food, Text_rent) :
        a \in {1, 3}, ty \in Types, cr \in BOOLEAN,
        d \in {Unparseable, LastMonth20, ThisMonth15, ThisMonthStamp}}

MonthlyLists == ListsUpTo(MonthlyRows, MaxRows)

\* expenses around the thirty days the daily chart shows
DailyRows ==
    {Transaction(2, "expense", cr, d, Text_food, Text_rent) :
        cr \in BOOLEAN,
        d \in {Unparseable, DaysAgo(0 - 1), DaysAgo(0), DaysAgo(1),
               DaysAgo(DaysShown - 1), DaysAgo(DaysShown)}}

DailyLists == ListsUpTo(DailyRows, MaxRows)

\* the name of the i-th category, a letter; the first one in capitals
CategoryName(i) == <<96 + i>>
CapitalA == <<65>>

MaxCategories == 6

\* MaxCategories rows: the first opens category a; each later one opens
\* its own category or repeats the first, as written or in capitals; the
\* first two amounts vary and the second row may be income
CategoryLists ==
    {[i \in 1..MaxCategories |->
        Transaction(IF i <= 2 THEN amount[i] ELSE 1,
                    IF i = 2 THEN type ELSE "expense",
                    FALSE, ThisMonth15,
                    IF i = 1 \/ pick[i] = "same" THEN CategoryName(1)
                    ELSE IF pick[i] = "capitals" THEN CapitalA
                    ELSE CategoryName(i),
                    Text_rent)] :
        pick \in [1..MaxCategories -> {"new", "same", "capitals"}],
        amount \in [1..2 -> {1, 2}],
        type \in Types}

\* one description, written three ways
Text_Gym == <<71, 121, 109>>                     \* "Gym"
Text_gym_spaced == <<32, 103, 121, 109, 32>>     \* " gym "
Text_GYM == <<71, 89, 77>>                       \* "GYM"
GymVariants == <<Text_Gym, Text_gym_spaced, Text_GYM>>

\* the description of the i-th filler group: "f1", "f2", ...
FillerText(i) == <<102>> \o Digits(i)

MaxFillers == 10

\* g groups of three expenses of 5 each
Fillers(g) ==
    [i \in 1..(3 * g) |->
        Transaction(5, "expense", FALSE, ThisMonth15, Text_food,
                    FillerText(((i - 1) \div 3) + 1))]

\* no filler groups or MaxFillers of them, then "rent" twice, then the
\* gym description two or three times, each time written differently,
\* cheaper or dearer than the fillers, any of them bought on credit
RecurringLists ==
    {Fillers(g)
     \o <<Transaction(7, "expense", FALSE, ThisMonth15, Text_food, Text_rent),
          Transaction(7, "expense", FALSE, LastMonth20, Text_food, Text_rent)>>
     \o [i \in 1..n |->
            Transaction(a, "expense", credit[i], ThisMonth15, Text_food, GymVariants[i])] :
        g \in {0, MaxFillers}, n \in {2, 3}, a \in {1, 9},
        credit \in [1..3 -> BOOLEAN]}

MaxRecent == 6

\* MaxRecent expenses of this month and of last month, in every order
RecentLists ==
    {[i \in 1..MaxRecent |->
        Transaction(i, "expense", FALSE, date[i], Text_food, Text_rent)] :
        date \in [1..MaxRecent -> {LastMonth20, ThisMonth15}]}

\* one purchase of 1200 in 12 installments, stored with amount 100
PurchaseList == <<CreditPurchase(1200, 12, 100, ThisMonth15)>>

ReportInputs == MonthlyLists \cup {PurchaseList} \cup DailyLists \cup CategoryLists
                \cup RecurringLists \cup RecentLists

\* -- the pages --------------------------------------------------------

\* src/app/reports/page.tsx, ReportsPage: every aggregate of one render
reportsView(ts) ==
    [page |-> "reports",
     monthlyData |-> calculateMonthlyData(ts),
     spendingTrends |-> calculateSpendingTrends(ts),
     transactionStats |-> calculateTransactionStats(ts),
     dailySpending |-> calculateDailySpending(ts),
     topCategories |-> [type \in Kinds |-> calculateTopCategories(ts, type)],
     recurringExpenses |-> calculateRecurringExpenses(ts)]

\* src/components/dashboard-content.tsx, DashboardContent
dashboardView(ts) ==
    [page |-> "dashboard",
     monthlyData |-> dashboard_calculateMonthlyData(ts),
     spendingTrends |-> dashboard_calculateSpendingTrends(ts),
     transactionStats |-> dashboard_calculateTransactionStats(ts),
     dailySpending |-> dashboard_calculateDailySpending(ts),
     topCategories |-> [type \in Kinds |-> dashboard_calculateTopCategories(ts, type)],
     recurringExpenses |-> dashboard_calculateRecurringExpenses(ts)]

ReportsPage ==
    /\ view' = reportsView(transactions)
    /\ UNCHANGED <<transactions, swr, chat, relay, requests>>
    /\ UNCHANGED bookVars

DashboardContent ==
    /\ view' = dashboardView(transactions)
    /\ UNCHANGED <<transactions, swr, chat, relay, requests>>
    /\ UNCHANGED bookVars

ExpenseStats ==
    /\ view' = expenseStatsView(transactions)
    /\ UNCHANGED <<transactions, swr, chat, relay, requests>>
    /\ UNCHANGED bookVars

InitReports ==
    /\ store = [i \in {} |-> 0]
    /\ nextId = 0
    /\ payments = 0
    /\ clock = 0
    /\ pay = [p \in Procs |-> Idle]
    /\ response = Report("none", 0, 0)
    /\ ledger = [i \in {} |-> 0]
    /\ edits = 0
    /\ transactions \in ReportInputs
    /\ view = NoView
    /\ swr = Unmounted
    /\ chat = NoChat
    /\ relay = NoRelay
    /\ requests = <<>>

NextReports == ReportsPage \/ DashboardContent \/ ExpenseStats

SpecReports == InitReports /\ [][NextReports]_vars

\* ---------------------------------------------------------------------
\* properties of the reports
\* ---------------------------------------------------------------------

Rendered == view.page \in {"reports", "dashboard"}

Amounts(ts, Keep(_)) == Sum([i \in DOMAIN ts |-> IF Keep(ts[i]) THEN ts[i].amount ELSE 0])

\* C11: for every transaction list, the sum over all month keys of (income - expense) equals the
\* sum of the income amounts minus the sum of the amounts of the expenses that are not credit
\* purchases.
C11_MonthlyTotalsReconcile ==
    Rendered
    => Sum([i \in DOMAIN view.monthlyData |->
                view.monthlyData[i].income - view.monthlyData[i].expense])
       = Amounts(transactions, LAMBDA t : t.type = "income")
         - Amounts(transactions, LAMBDA t : t.type = "expense" /\ ~t.is_credit)

\* the year and the month a key names, as the Overview chart reads it
KeyMonth(key) ==
    LET parts == split(key, 45)
    IN <<Number(parts[1]), IF Len(parts) > 1 THEN Number(parts[2]) ELSE NaN>>

\* what the monthly totals show as the expense of one month
MonthExpense(monthlyData, year, month) ==
    Sum([i \in DOMAIN monthlyData |->
            IF KeyMonth(monthlyData[i].key) = <<year, month>>
            THEN monthlyData[i].expense ELSE 0])

\* C12: for the list of one credit purchase with original amount 1200, 12 installments and stored
\* amount 100, the monthly expense total of the purchase's month is 100.
C12_CreditPurchaseCountsInstallment ==
    (Rendered /\ transactions = PurchaseList)
    => MonthExpense(view.monthlyData, 2024, 10) = 100

\* a key of the form YYYY-MM
IsYearMonth(key) ==
    /\ Len(key) = 7
    /\ key[5] = 45
    /\ \A i \in {1, 2, 3, 4, 6, 7} : IsDigit(key[i])

\* a is a month before b
Earlier(a, b) == a[1] < b[1] \/ (a[1] = b[1] /\ a[2] < b[2])

\* C13: every key of the monthly totals has the form YYYY-MM with a zero-padded month, so the
\* keys sorted as strings, as the Overview chart sorts them, are in chronological order.
C13_KeysSortChronologically ==
    Rendered
    => /\ \A i \in DOMAIN view.monthlyData : IsYearMonth(view.monthlyData[i].key)
       /\ LET sortedKeys == SortBy(ObjectKeys(view.monthlyData), TextLess)
          IN \A i, j \in DOMAIN sortedKeys :
                i < j => Earlier(KeyMonth(sortedKeys[i]), KeyMonth(sortedKeys[j]))

SameRatio(a, b) == a.num * b.den = b.num * a.den

\* the month-over-month change the claim asks for
ExpectedChange(current, previous) ==
    IF previous = 0 THEN (IF current > 0 THEN Percent(100) ELSE Percent(0))
    ELSE PercentChange(current, previous)

\* C14: the month-over-month change of income and of expense is 100 when the previous month is 0
\* and the current month is above 0, 0 when both are 0, and otherwise
\* (current - previous) / previous * 100.
C14_MonthOverMonthChange ==
    /\ Rendered
       => /\ SameRatio(view.spendingTrends.incomeChange,
                       ExpectedChange(view.spendingTrends.currentMonth.income,
                                      view.spendingTrends.previousMonth.income))
          /\ SameRatio(view.spendingTrends.expenseChange,
                       ExpectedChange(view.spendingTrends.currentMonth.expense,
                                      view.spendingTrends.previousMonth.expense))
    /\ view.page = "stats"
       => SameRatio(view.monthOverMonthChange,
                    ExpectedChange(view.thisMonthData.expenses,
                                   view.lastMonthData.expenses))

\* a row whose date cannot be parsed
BadDate(t) == ~isValidDate(newDate(t.date))

\* the list without the rows whose date cannot be parsed
Parseable(ts) == filter(ts, LAMBDA t : ~BadDate(t))

\* what the page that rendered computes from a list
PageView(ts) == IF view.page = "reports" THEN reportsView(ts) ELSE dashboardView(ts)

\* C15: when the list holds a record whose date cannot be parsed, monthly totals, spending
\* trends, transaction statistics and daily spending complete without throwing and give, in their
\* date-based results, what they give for the list without that record.
C15_BadDateIsLeftOut ==
    (Rendered /\ \E i \in DOMAIN transactions : BadDate(transactions[i]))
    => LET rest == PageView(Parseable(transactions))
       IN /\ ~view.transactionStats.threw
          /\ view.monthlyData = rest.monthlyData
          /\ view.spendingTrends = rest.spendingTrends
          /\ view.dailySpending = rest.dailySpending
          /\ view.transactionStats.value.weekdayDistribution
             = rest.transactionStats.value.weekdayDistribution
          /\ view.transactionStats.value.largestExpense
             = rest.transactionStats.value.largestExpense
          /\ view.transactionStats.value.largestIncome
             = rest.transactionStats.value.largestIncome
          /\ view.transactionStats.value.daysSinceFirstTransaction
             = rest.transactionStats.value.daysSinceFirstTransaction

\* an expense of the list is dated on the day
SpentOn(day) ==
    \E i \in DOMAIN transactions :
        /\ transactions[i].type = "expense"
        /\ newDate(transactions[i].date) = day

\* C16: the daily-spending output has exactly 30 entries, one for each of the trailing calendar
\* days, the oldest first and today last, with amount 0 for a day without spending.
C16_ThirtyDaysOldestFirst ==
    Rendered
    => /\ Len(view.dailySpending) = 30
       /\ \A i \in 1..30 :
            LET day == subDays(Today, 30 - i)
            IN /\ i \in DOMAIN view.dailySpending
               /\ view.dailySpending[i].date = <<ToYMD(day)[2], ToYMD(day)[3]>>
               /\ ~SpentOn(day) => view.dailySpending[i].amount = 0

\* the reports page shows spending on the oldest day and today, none on the day between
C16_Witness ==
    /\ view.page = "reports"
    /\ Len(transactions) = 2
    /\ view.dailySpending[1].amount = 2
    /\ view.dailySpending[2].amount = 0
    /\ view.dailySpending[30].amount = 2
    /\ view.dailySpending[30].date = <<10, 15>>

\* the key the page files a row's category under
CategoryKey(t) == IF view.page = "dashboard" THEN toLowerCase(t.category) ELSE t.category

\* the rows of the list a kind filter lets through
Counted(t, kind) == t.category # <<>> /\ (kind = "all" \/ t.type = kind)

\* the position in the list where a category is seen first
FirstSeen(name, kind) ==
    CHOOSE i \in DOMAIN transactions :
        /\ Counted(transactions[i], kind) /\ CategoryKey(transactions[i]) = name
        /\ \A j \in 1..(i - 1) :
              ~(Counted(transactions[j], kind) /\ CategoryKey(transactions[j]) = name)

DescriptionKey(text) == trim(toLowerCase(text))

\* the descriptions of the expenses of the list
ExpenseDescriptions ==
    {DescriptionKey(transactions[i].description) :
        i \in {j \in DOMAIN transactions : transactions[j].type = "expense"}}

\* how often a description occurs among the expenses, or the ones not on credit
Occurrences(k, withCredit) ==
    Cardinality({i \in DOMAIN transactions :
        /\ transactions[i].type = "expense"
        /\ withCredit \/ ~transactions[i].is_credit
        /\ DescriptionKey(transactions[i].description) = k})

Appears(k) ==
    \E i \in DOMAIN view.recurringExpenses :
        DescriptionKey(view.recurringExpenses[i].description) = k

Later(a, b) == a > b

\* the dates of the rows of a list, the latest first
LatestFirst(dates) == SortBy(dates, Later)

\* C19: for any input list, in any order, recentTransactions holds the 5 transactions with the
\* latest dates, all of them when the list has fewer than 5.
C19_RecentAreTheLatestFive ==
    (Rendered /\ \A i \in DOMAIN transactions : ~BadDate(transactions[i]))
    => LET recent == view.transactionStats.value.recentTransactions
           shown == [i \in DOMAIN recent |->
                        DayNumber(recent[i].date[1], recent[i].date[2], recent[i].date[3])]
           all == [i \in DOMAIN transactions |-> newDate(transactions[i].date)]
       IN LatestFirst(shown) = slice(LatestFirst(all), 0, 5)

\* ---------------------------------------------------------------------
\* useTransactions: the hook that fetches the list for the dashboard,
\* with SWR's retries, its own retry timer and forceRefresh.
\* swr.queue holds the revalidations that are due; the counters
\* fetches, automaticFetches, refreshes, refreshSessionCalls,
\* retryRefreshes, authFailures and retries record what has happened so
\* far.
\* ---------------------------------------------------------------------

MaxFetches == 5

\* if (lastError && retryCount < 3)
MaxRetries == 3

\* 3000 * (retryCount + 1)
RetryDelay == 3000

\* useSWR option
errorRetryCount == 3

\* what supabase.auth.refreshSession() can answer, first on the client at
\* hand and then, after an error, on the client that was reset
RefreshOutcomes == {"session", "sessionAfterReset", "errors", "noSession",
                    "noSessionAfterReset"}

\* forceRefresh: whether it succeeded, how often it called
\* refreshSession, whether it went to /login itself
forceRefresh(outcome) ==
    [success |-> outcome \in {"session", "sessionAfterReset"},
     calls |-> IF outcome \in {"session", "noSession"} THEN 1 ELSE 2,
     pushed |-> outcome \in {"noSession", "noSessionAfterReset"}]

\* what the query on the transactions table can answer
QueryOutcomes == {"data", "authError", "otherError"}

\* one run of the fetcher
Fetched(result, authFailure, forceRefreshes, calls, pushed) ==
    [result |-> result, authFailure |-> authFailure,
     forceRefreshes |-> forceRefreshes, calls |-> calls, pushed |-> pushed]

fetchTransactions_run(hasSession, first, query, second) ==
    LET atStart == IF hasSession THEN [success |-> TRUE, calls |-> 0, pushed |-> FALSE]
                   ELSE forceRefresh(first)
        started == IF hasSession THEN 0 ELSE 1
        afterError == forceRefresh(second)
    IN IF ~atStart.success
       THEN Fetched("error", TRUE, started, atStart.calls, TRUE)
       ELSE IF query = "data"
       THEN Fetched("data", ~hasSession, started, atStart.calls, FALSE)
       ELSE IF query = "authError"
       THEN Fetched("error", TRUE, started + 1, atStart.calls + afterError.calls,
                    ~afterError.success)
       ELSE Fetched("error", ~hasSession, started, atStart.calls, FALSE)

\* the effect on [lastError, retryCount]: the timer it sets, 0 for none
useEffect_timer(lastError, retryCount) ==
    IF lastError /\ retryCount < MaxRetries THEN RetryDelay * (retryCount + 1) ELSE 0

\* the effect on [lastError, retryCount]: whether it goes to /login
useEffect_login(lastError, retryCount) == lastError /\ retryCount >= MaxRetries

\* a revalidation that is due: the retry count SWR carries with it, and
\* whether an automatic retry started it
Revalidation(retryCount, automatic) == [retryCount |-> retryCount, automatic |-> automatic]

\* the component mounts, SWR revalidates
Mount ==
    /\ swr = Unmounted
    /\ swr' = [pc |-> "mounted", queue |-> <<Revalidation(0, FALSE)>>,
               lastError |-> FALSE, retryCount |-> 0, timer |-> 0, swrTimer |-> 0,
               result |-> "none", redirected |-> FALSE,
               fetches |-> 0, refreshes |-> 0, refreshSessionCalls |-> 0,
               retryRefreshes |-> 0, authFailures |-> 0, retries |-> 0,
               automaticFetches |-> 0]
    /\ UNCHANGED <<transactions, view, chat, relay, requests>>
    /\ UNCHANGED bookVars

\* SWR runs the fetcher for the revalidation that is due first; on an
\* error it calls onError and plans its own retry.  forceRefresh answers
\* only where the fetcher calls it.
fetchTransactions ==
    /\ swr.pc = "mounted"
    /\ ~swr.redirected
    /\ swr.queue # <<>>
    /\ swr.fetches < MaxFetches
    /\ \E hasSession \in BOOLEAN, query \in QueryOutcomes :
       \E first \in (IF hasSession THEN {"session"} ELSE RefreshOutcomes),
          second \in (IF query = "authError" THEN RefreshOutcomes ELSE {"session"}) :
        LET due == Head(swr.queue)
            run == fetchTransactions_run(hasSession, first, query, second)
            ok == run.result = "data"
            lastError == ~ok
            retryCount == IF ok THEN 0 ELSE swr.retryCount
            nextRetry == due.retryCount + 1
        IN swr' = [swr EXCEPT
               !.queue = Tail(@),
               !.result = run.result,
               !.lastError = lastError,
               !.retryCount = retryCount,
               !.timer = useEffect_timer(lastError, retryCount),
               !.swrTimer = IF ~ok /\ nextRetry <= errorRetryCount THEN nextRetry ELSE 0,
               !.redirected = run.pushed \/ useEffect_login(lastError, retryCount),
               !.fetches = @ + 1,
               !.refreshes = @ + run.forceRefreshes,
               !.refreshSessionCalls = @ + run.calls,
               !.retryRefreshes = IF due.automatic THEN @ + run.forceRefreshes ELSE @,
               !.authFailures = IF run.authFailure THEN @ + 1 ELSE @,
               !.automaticFetches = IF due.automatic THEN @ + 1 ELSE @]
    /\ UNCHANGED <<transactions, view, chat, relay, requests>>
    /\ UNCHANGED bookVars

\* the hook's timer fires: setRetryCount(prev + 1), mutate(); the effect
\* runs again for the new retryCount
retryTimer ==
    /\ swr.pc = "mounted"
    /\ ~swr.redirected
    /\ swr.timer > 0
    /\ swr' = [swr EXCEPT
           !.retryCount = @ + 1,
           !.queue = Append(@, Revalidation(0, TRUE)),
           !.timer = useEffect_timer(swr.lastError, swr.retryCount + 1),
           !.redirected = useEffect_login(swr.lastError, swr.retryCount + 1),
           !.retries = @ + 1]
    /\ UNCHANGED <<transactions, view, chat, relay, requests>>
    /\ UNCHANGED bookVars

\* SWR's own retry after an error comes due
onErrorRetry ==
    /\ swr.pc = "mounted"
    /\ ~swr.redirected
    /\ swr.swrTimer > 0
    /\ swr' = [swr EXCEPT
           !.queue = Append(@, Revalidation(swr.swrTimer, TRUE)),
           !.swrTimer = 0,
           !.retries = @ + 1]
    /\ UNCHANGED <<transactions, view, chat, relay, requests>>
    /\ UNCHANGED bookVars

NextFetch == Mount \/ fetchTransactions \/ retryTimer \/ onErrorRetry

SpecFetch == Init /\ [][NextFetch]_vars

\* C20: when the fetch detects an authentication failure, exactly one session-refresh attempt is
\* made before the fetch layer gives up and redirects to /login, and the automatic retries that
\* follow add no further refresh attempts.
C20_OneRefreshBeforeLogin ==
    swr.pc = "mounted"
    => /\ (swr.redirected /\ swr.authFailures > 0) => swr.refreshes = 1
       /\ swr.retryRefreshes = 0

\* C21: when fetching the list keeps failing, at most 3 automatic retries are made, and once
\* the third of them has failed no further automatic retry is scheduled.
C21_AtMostThreeAutomaticRetries ==
    swr.pc = "mounted"
    => /\ swr.automaticFetches <= MaxRetries
       /\ (swr.automaticFetches >= MaxRetries /\ swr.lastError /\ swr.queue = <<>>)
          => (swr.timer = 0 /\ swr.swrTimer = 0)

\* C22: a payInstallment call sends no write, neither the update nor the insert, when the
\* caller has no session or when the id does not name a credit transaction owned by the
\* caller: a call goes on to its writes only for a signed-in caller and a credit transaction
\* of that caller, and a call turned down for one of these reasons leaves the store as it was.
C22_NoWriteWithoutSessionOrOwnCredit ==
    [][/\ \A p \in Procs :
            (pay[p].pc = "idle" /\ pay'[p].pc # "idle")
            => /\ pay'[p].pc = "update"
               /\ pay'[p].caller \in Users
               /\ pay'[p].id \in Ids
               /\ store[pay'[p].id].user_id = pay'[p].caller
               /\ store[pay'[p].id].is_credit
       /\ (response' # response /\ response'.result \in {AuthFailed, NotFound})
          => /\ response'.writes = 0
             /\ store' = store
             /\ ledger' = ledger
             /\ pay' = pay
    ]_vars

\* a call for a transaction that is not a credit purchase has just been turned down
C22_Witness ==
    /\ response = Report(NotFound, 0, 0)
    /\ Ids # {}
    /\ \A id \in Ids : ~store[id].is_credit

\* ---------------------------------------------------------------------
\* The chat panel: handleSubmit reads the answer stream of /api/chat
\* chunk by chunk and separates <think>...</think> blocks from the
\* visible answer.  Text is a sequence of UTF-16 code units, a chunk a
\* sequence of bytes.
\* ---------------------------------------------------------------------

\* "<think>" and "</think>"
ThinkOpen == <<60, 116, 104, 105, 110, 107, 62>>
ThinkClose == <<60, 47, 116, 104, 105, 110, 107, 62>>

\* "\n"
Newline == <<10>>

\* String.prototype.startsWith at a position
StartsWithAt(text, pattern, i) ==
    /\ i + Len(pattern) <= Len(text)
    /\ \A k \in 1..Len(pattern) : text[i + k] = pattern[k]

\* String.prototype.indexOf: the first position, from 0, or -1
indexOf(text, pattern) ==
    LET found == {i \in 0..Len(text) : StartsWithAt(text, pattern, i)}
    IN  IF found = {} THEN 0 - 1 ELSE CHOOSE i \in found : \A j \in found : i <= j

\* String.prototype.substring(from): the rest of the text
substringFrom(text, from) == slice(text, from, Len(text))

\* U+FFFD, what a decoder puts for bytes that are no character
Replacement == 65533

\* the first byte of a two-byte UTF-8 sequence
IsLeadByte(b) == b >= 192 /\ b < 224

\* TextDecoder.decode on bytes: ASCII bytes are their own code unit, a
\* lead byte and its continuation byte make one code unit, a lead byte
\* at the end waits when more input may follow (stream) and becomes
\* U+FFFD when it may not, a continuation byte without its lead byte
\* becomes U+FFFD
IsContinuationByte(b) == b >= 128 /\ b < 192

\* the code unit that the byte at position i gives, -1 for none
decodedAt(bytes, i, stream) ==
    IF bytes[i] < 128 THEN bytes[i]
    ELSE IF IsLeadByte(bytes[i])
    THEN IF i < Len(bytes) /\ IsContinuationByte(bytes[i + 1])
         THEN (bytes[i] - 192) * 64 + (bytes[i + 1] - 128)
         ELSE IF i = Len(bytes) /\ stream THEN 0 - 1
         ELSE Replacement
    ELSE IF i > 1 /\ IsLeadByte(bytes[i - 1]) THEN 0 - 1
    ELSE Replacement

decodeBytes(bytes, stream) ==
    [text |-> SelectSeq([i \in 1..Len(bytes) |-> decodedAt(bytes, i, stream)],
                        LAMBDA unit : unit # 0 - 1),
     pending |-> IF bytes # <<>> /\ IsLeadByte(bytes[Len(bytes)]) /\ stream
                 THEN <<bytes[Len(bytes)]>> ELSE <<>>]

\* the three strings handleSubmit carries through the loop
Parsing(buffer, content, thinking) ==
    [buffer |-> buffer, accumulatedFinalContent |-> content,
     accumulatedThinkingSteps |-> thinking]

\* while (thinkStartIndex !== -1 && thinkEndIndex !== -1 &&
\*        thinkStartIndex < thinkEndIndex): move one block out of the buffer
RECURSIVE extractBlocks(_, _, _)
extractBlocks(buffer, content, thinking) ==
    IF /\ indexOf(buffer, ThinkOpen) # 0 - 1
       /\ indexOf(buffer, ThinkClose) # 0 - 1
       /\ indexOf(buffer, ThinkOpen) < indexOf(buffer, ThinkClose)
    THEN extractBlocks(
            substringFrom(buffer, indexOf(buffer, ThinkClose) + Len(ThinkClose)),
            content \o slice(buffer, 0, indexOf(buffer, ThinkOpen)),
            thinking \o (IF thinking # <<>> THEN Newline ELSE <<>>)
                     \o slice(buffer, indexOf(buffer, ThinkOpen) + Len(ThinkOpen),
                              indexOf(buffer, ThinkClose)))
    ELSE Parsing(buffer, content, thinking)

\* after the loop, in the body of the read loop: the text before an open
\* tag is shown and the buffer is kept whole; without an open tag the
\* buffer is shown and emptied
afterBlocks(p) ==
    IF indexOf(p.buffer, ThinkOpen) # 0 - 1
    THEN Parsing(p.buffer,
                 p.accumulatedFinalContent \o slice(p.buffer, 0, indexOf(p.buffer, ThinkOpen)),
                 p.accumulatedThinkingSteps)
    ELSE Parsing(<<>>, p.accumulatedFinalContent \o p.buffer, p.accumulatedThinkingSteps)

\* after the loop, once the stream has ended: the buffer is shown
afterLastBlocks(p) ==
    Parsing(<<>>, p.accumulatedFinalContent \o p.buffer, p.accumulatedThinkingSteps)

\* the assistant message as setMessages leaves it
Message(p, isStreaming) ==
    [content |-> p.accumulatedFinalContent,
     thinkingSteps |-> p.accumulatedThinkingSteps,
     isStreaming |-> isStreaming]

\* -- answer streams and the ways of cutting them into chunks
MaxChunks == 3

\* "a<think>x</think>b"
OneBlock == <<97>> \o ThinkOpen \o <<120>> \o ThinkClose \o <<98>>

\* "<think>x</think>a<think>y</think>"
TwoBlocks == ThinkOpen \o <<120>> \o ThinkClose \o <<97>> \o ThinkOpen \o <<121>> \o ThinkClose

\* "é<think>x</think>", é being the bytes C3 A9
Accented == <<195, 169>> \o ThinkOpen \o <<120>> \o ThinkClose

\* "ab", no block at all
Plain == <<97, 98>>

AnswerStreams == {OneBlock, TwoBlocks, Accented, Plain}

\* the bytes of a stream cut at the positions of cuts, which ascend
Chunking(bytes, cuts) ==
    [i \in 1..(Len(cuts) + 1) |->
        SubSeq(bytes,
               (IF i = 1 THEN 0 ELSE cuts[i - 1]) + 1,
               IF i = Len(cuts) + 1 THEN Len(bytes) ELSE cuts[i])]

\* every way of cutting a stream into at most MaxChunks chunks, none empty
Chunkings(bytes) ==
    {Chunking(bytes, <<>>)}
    \cup {Chunking(bytes, <<c>>) : c \in 1..(Len(bytes) - 1)}
    \cup {Chunking(bytes, <<c[1], c[2]>>) :
            c \in {d \in (1..(Len(bytes) - 1)) \X (1..(Len(bytes) - 1)) : d[1] < d[2]}}

RECURSIVE Concat(_)
Concat(chunks) == IF chunks = <<>> THEN <<>> ELSE Head(chunks) \o Concat(Tail(chunks))

\* the request has been answered: the body is about to be read
Answering(chunks) ==
    [pc |-> "reading", body |-> chunks, stream |-> Concat(chunks), pending |-> <<>>,
     parsing |-> Parsing(<<>>, <<>>, <<>>),
     message |-> Message(Parsing(<<>>, <<>>, <<>>), TRUE)]

\* one turn of the read loop: reader.read() hands over a chunk
handleSubmit_read ==
    /\ chat.pc = "reading"
    /\ chat.body # <<>>
    /\ LET decoded == decodeBytes(chat.pending \o Head(chat.body), TRUE)
           p == afterBlocks(extractBlocks(chat.parsing.buffer \o decoded.text,
                                          chat.parsing.accumulatedFinalContent,
                                          chat.parsing.accumulatedThinkingSteps))
       IN  chat' = [chat EXCEPT !.body = Tail(@), !.pending = decoded.pending,
                                !.parsing = p, !.message = Message(p, TRUE)]
    /\ UNCHANGED <<transactions, view, swr, relay, requests>>
    /\ UNCHANGED bookVars

\* reader.read() reports done: the rest of the buffer is handled
handleSubmit_done ==
    /\ chat.pc = "reading"
    /\ chat.body = <<>>
    /\ LET decoded == decodeBytes(chat.pending, FALSE)
           p == afterLastBlocks(extractBlocks(chat.parsing.buffer \o decoded.text,
                                              chat.parsing.accumulatedFinalContent,
                                              chat.parsing.accumulatedThinkingSteps))
       IN  chat' = [chat EXCEPT !.pc = "done", !.pending = <<>>,
                                !.parsing = p, !.message = Message(p, FALSE)]
    /\ UNCHANGED <<transactions, view, swr, relay, requests>>
    /\ UNCHANGED bookVars

InitChat ==
    /\ store = [i \in {} |-> 0]
    /\ nextId = 0
    /\ payments = 0
    /\ clock = 0
    /\ pay = [p \in Procs |-> Idle]
    /\ response = Report("none", 0, 0)
    /\ ledger = [i \in {} |-> 0]
    /\ edits = 0
    /\ transactions = <<>>
    /\ view = NoView
    /\ swr = Unmounted
    /\ chat \in {Answering(chunks) : chunks \in UNION {Chunkings(s) : s \in AnswerStreams}}
    /\ relay = NoRelay
    /\ requests = <<>>

NextChat == handleSubmit_read \/ handleSubmit_done

SpecChat == InitChat /\ [][NextChat]_vars

\* the text of a stream as a decoder that saw it whole gives it
StreamText(bytes) == decodeBytes(bytes, FALSE).text

\* a text without its complete <think>...</think> segments, and the
\* contents of those segments, one per line
RECURSIVE Segments(_, _, _)
Segments(text, visible, steps) ==
    LET start == indexOf(text, ThinkOpen)
        inner == substringFrom(text, start + Len(ThinkOpen))
        end == indexOf(inner, ThinkClose)
    IN  IF start = 0 - 1 \/ end = 0 - 1
        THEN [visible |-> visible \o text, steps |-> steps]
        ELSE Segments(substringFrom(inner, end + Len(ThinkClose)),
                      visible \o slice(text, 0, start),
                      steps \o (IF steps # <<>> THEN Newline ELSE <<>>) \o slice(inner, 0, end))

\* C23: for every answer stream and every way of cutting it into chunks, the content of the
\* finished assistant message is the stream's text without its complete <think>...</think>
\* segments, and its thinking steps are the contents of those segments.
C23_ThinkSegmentsSeparated ==
    chat.pc = "done"
    => /\ chat.message.content = Segments(StreamText(chat.stream), <<>>, <<>>).visible
       /\ chat.message.thinkingSteps = Segments(StreamText(chat.stream), <<>>, <<>>).steps

\* ---------------------------------------------------------------------
\* payInstallment under overlapping calls, deletes and edits
\* ---------------------------------------------------------------------

\* every decrement written to the row of id has its payment row: no
\* insert failed after its update, and no call is between the two
EveryWriteDone(id) == InFlight = 0 /\ ledger[id].dec = ledger[id].paid

\* C24: when payInstallment calls for one credit transaction overlap and no write fails, no
\* decrement is lost: the payments inserted for it are (installments - 1) less its
\* remaining_installments, hence at most installments - 1.
C24_NoDecrementLost ==
    \A id \in Ids :
        (Untouched(id) /\ EveryWriteDone(id))
        => /\ ledger[id].paid = (store[id].installments - 1) - store[id].remaining_installments
           /\ ledger[id].paid <= store[id].installments - 1

\* the call p has just inserted its payment row and reported success
PaymentInserted(p) ==
    /\ pay[p].pc = "insert"
    /\ pay'[p].pc = "idle"
    /\ response'.result = Paid

\* C25: when the credit transaction is deleted between a call's read and its writes, the
\* call inserts no payment and does not report success: a payment row is inserted only for
\* a credit record that still exists and that the call has decremented.
C25_NoPaymentForDeletedRecord ==
    [][\A p \in Procs :
        PaymentInserted(p)
        => /\ pay[p].id \in Ids
           /\ ledger[pay[p].id].dec > ledger[pay[p].id].paid
    ]_vars

\* C26: saving the edit form opened on a credit transaction without changing a field leaves
\* the stored record as it was: amount, original_amount, installments and
\* remaining_installments are the same before and after the save.
C26_UnchangedSaveKeepsRecord ==
    [][\A id \in Ids :
        (/\ edits' = edits + 1
         /\ store[id].is_credit
         /\ Edit(id, defaultValues(store[id])))
        => /\ store'[id].amount = store[id].amount
           /\ store'[id].original_amount = store[id].original_amount
           /\ store'[id].installments = store[id].installments
           /\ store'[id].remaining_installments = store[id].remaining_installments
    ]_vars

\* C27: in an add or edit submission whose write the store rejects with an authentication
\* error, the session is refreshed and, when the refresh succeeds, the same write is sent
\* again within that submission: a submission that ends after a successful refresh has sent
\* its write twice.
C27_WriteRetriedAfterRefresh ==
    response.result = "tryAgain" => response.writes >= 2

\* ---------------------------------------------------------------------
\* The middleware: who is sent where before a page or route handler runs.
\* A pathname is a sequence of UTF-16 code units.
\* ---------------------------------------------------------------------

\* "/"
Path_root == <<47>>

\* "/login"
Path_login == <<47, 108, 111, 103, 105, 110>>

\* "/signup"
Path_signup == <<47, 115, 105, 103, 110, 117, 112>>

\* "/api/auth/callback"
Path_callback == <<47, 97, 112, 105, 47, 97, 117, 116, 104, 47, 99, 97, 108, 108, 98, 97, 99, 107>>

\* "/dashboard"
Path_dashboard == <<47, 100, 97, 115, 104, 98, 111, 97, 114, 100>>

\* "/reports"
Path_reports == <<47, 114, 101, 112, 111, 114, 116, 115>>

\* "/api/chat"
Path_chat == <<47, 97, 112, 105, 47, 99, 104, 97, 116>>

\* "/favicon.ico"
Path_favicon == <<47, 102, 97, 118, 105, 99, 111, 110, 46, 105, 99, 111>>

\* "_next/static"
NextStatic == <<95, 110, 101, 120, 116, 47, 115, 116, 97, 116, 105, 99>>

\* "_next/image"
NextImage == <<95, 110, 101, 120, 116, 47, 105, 109, 97, 103, 101>>

\* "favicon.ico"
Favicon == <<102, 97, 118, 105, 99, 111, 110, 46, 105, 99, 111>>

\* pathnames a browser asks for
Pathnames == {Path_root, Path_login, Path_signup, Path_callback, Path_dashboard,
              Path_reports, Path_chat, Path_favicon}

MaxRequests == 2

\* String.prototype.startsWith
startsWith(text, pattern) == StartsWithAt(text, pattern, 0)

\* config.matcher: "/((?!_next/static|_next/image|favicon.ico).*)"
matcher(pathname) ==
    /\ startsWith(pathname, Path_root)
    /\ ~StartsWithAt(pathname, NextStatic, 1)
    /\ ~StartsWithAt(pathname, NextImage, 1)
    /\ ~StartsWithAt(pathname, Favicon, 1)

\* NextResponse.redirect(new URL(pathname, req.url))
Redirect(pathname) == [redirect |-> pathname]

\* NextResponse.next()
res == [redirect |-> <<>>]

\* the function middleware, user telling whether getUser() found one
middleware_response(user, pathname) ==
    IF user /\ pathname \in {Path_login, Path_signup, Path_root}
    THEN Redirect(Path_dashboard)
    ELSE IF /\ ~user
            /\ ~\E path \in {Path_login, Path_signup, Path_root, Path_callback} :
                    startsWith(pathname, path)
    THEN Redirect(Path_login)
    ELSE res

\* a request arrives; the middleware answers it when the matcher selects
\* its pathname
middleware ==
    /\ Len(requests) < MaxRequests
    /\ \E user \in BOOLEAN, pathname \in Pathnames :
        requests' = Append(requests,
            [user |-> user, pathname |-> pathname,
             response |-> IF matcher(pathname) THEN middleware_response(user, pathname)
                          ELSE res])
    /\ UNCHANGED <<transactions, view, swr, chat, relay>>
    /\ UNCHANGED bookVars

SpecMiddleware == Init /\ [][middleware]_vars

\* C28: every request of a user who is not signed in, for a pathname other than /, /login
\* and /signup and not under /api/auth/callback, is redirected to /login.
C28_SignedOutIsSentToLogin ==
    \A i \in DOMAIN requests :
        (/\ ~requests[i].user
         /\ requests[i].pathname \notin {Path_root, Path_login, Path_signup}
         /\ ~startsWith(requests[i].pathname, Path_callback))
        => requests[i].response = Redirect(Path_login)

\* C29: each aggregation helper of the dashboard returns, for every transaction list, what
\* the reports-page function of the same name returns: what the dashboard shows for a list
\* is what the reports page computes from it.
C29_DashboardHelpersMatchReports ==
    view.page = "dashboard"
    => view = [reportsView(transactions) EXCEPT !.page = "dashboard"]

\* ---------------------------------------------------------------------
\* /api/chat: the TransformStream that turns the upstream event stream
\* into the plain text the chat panel reads.
\* ---------------------------------------------------------------------

\* "data: "
DataPrefix == <<100, 97, 116, 97, 58, 32>>

\* "[DONE]"
DoneMark == <<91, 68, 79, 78, 69, 93>>

\* the text of an event carrying a piece of the answer, around the piece:
\* {"choices":[{"delta":{"content":"  and  "}}]}
DeltaOpen == <<123, 34, 99, 104, 111, 105, 99, 101, 115, 34, 58, 91, 123, 34, 100, 101, 108, 116, 97, 34, 58, 123, 34, 99, 111, 110, 116, 101, 110, 116, 34, 58, 34>>
DeltaClose == <<34, 125, 125, 93, 125>>

\* "{}"
EmptyObject == <<123, 125>>

\* a JSON text cut short: {"cho
CutShort == <<123, 34, 99, 104, 111>>

\* String.prototype.lastIndexOf for one code unit: the last position, from
\* 0, or -1
lastIndexOf(text, unit) ==
    LET found == {i \in 1..Len(text) : text[i] = unit}
    IN  IF found = {} THEN 0 - 1 ELSE (CHOOSE i \in found : \A j \in found : i >= j) - 1

\* a text that needs no escape inside a JSON string
IsPlain(text) == \A i \in DOMAIN text : text[i] >= 32 /\ text[i] # 34 /\ text[i] # 92

\* the piece of the answer inside the text of an event
Inner(data) == slice(data, Len(DeltaOpen), Len(data) - Len(DeltaClose))

IsDelta(data) ==
    /\ Len(data) >= Len(DeltaOpen) + Len(DeltaClose)
    /\ startsWith(data, DeltaOpen)
    /\ StartsWithAt(data, DeltaClose, Len(data) - Len(DeltaClose))
    /\ IsPlain(Inner(data))

\* JSON.parse(data) followed by parsed.choices?.[0]?.delta?.content, on
\* the texts an event can have here: an event with a piece of the answer,
\* an empty object, and texts that are no JSON
delta_content(data) ==
    IF IsDelta(data) THEN Returned([isString |-> TRUE, text |-> Inner(data)])
    ELSE IF data = EmptyObject THEN Returned([isString |-> FALSE, text |-> <<>>])
    ELSE Threw

\* TextEncoder.encode
RECURSIVE encode(_)
encode(text) ==
    IF text = <<>> THEN <<>>
    ELSE (IF Head(text) < 128 THEN <<Head(text)>>
          ELSE IF Head(text) < 2048
          THEN <<192 + (Head(text) \div 64), 128 + (Head(text) % 64)>>
          ELSE <<224 + (Head(text) \div 4096), 128 + ((Head(text) \div 64) % 64),
                 128 + (Head(text) % 64)>>)
         \o encode(Tail(text))

\* the state of the transform: its buffer and what it has enqueued
Relayed(buffer, enqueued) == [buffer |-> buffer, enqueued |-> enqueued]

\* for (const line of lines): the lines in turn, until one fails to parse
RECURSIVE relayLines(_, _, _)
RECURSIVE relayData(_, _, _, _)
relayLines(lines, buffer, enqueued) ==
    IF lines = <<>> THEN Relayed(buffer, enqueued)
    ELSE IF ~startsWith(Head(lines), DataPrefix)
    THEN relayLines(Tail(lines), buffer, enqueued)
    ELSE relayData(lines, buffer, enqueued,
                   trim(substringFrom(Head(lines), Len(DataPrefix))))

\* the body of the loop for a line that starts with "data: "
relayData(lines, buffer, enqueued, data) ==
    IF data = DoneMark THEN relayLines(Tail(lines), buffer, enqueued)
    ELSE IF delta_content(data) = Threw
    THEN Relayed(Head(lines) \o Newline \o buffer, enqueued)
    ELSE IF delta_content(data).value.isString /\ Len(delta_content(data).value.text) > 0
    THEN relayLines(Tail(lines), buffer,
                    Append(enqueued, encode(delta_content(data).value.text)))
    ELSE relayLines(Tail(lines), buffer, enqueued)

\* the lines of the text that are not blank
nonBlankLines(processData) == filter(split(processData, 10), LAMBDA line : trim(line) # <<>>)

\* transform(chunkUint8, controller), buffer being the buffer with the
\* chunk's text added
transformBuffer(buffer, enqueued) ==
    IF lastIndexOf(buffer, 10) = 0 - 1 THEN Relayed(buffer, enqueued)
    ELSE relayLines(nonBlankLines(slice(buffer, 0, lastIndexOf(buffer, 10))),
                    substringFrom(buffer, lastIndexOf(buffer, 10) + 1),
                    enqueued)

\* -- upstream event streams
Event(piece) == DataPrefix \o DeltaOpen \o piece \o DeltaClose \o Newline

\* two events, a blank line after each
TwoEvents == Event(<<97>>) \o Newline \o Event(<<98>>) \o Newline

\* an event, a data line that is no JSON, an event
BrokenEvent == Event(<<97>>) \o DataPrefix \o CutShort \o Newline \o Event(<<98>>)

\* an event and the closing mark
EventAndDone == Event(<<97>>) \o DataPrefix \o DoneMark \o Newline

\* an event whose piece is "é"
AccentedEvent == DataPrefix \o DeltaOpen \o <<195, 169>> \o DeltaClose \o Newline

UpstreamStreams == {TwoEvents, BrokenEvent, EventAndDone, AccentedEvent}

\* the upstream body is piped through the transform
Piping(chunks) ==
    [pc |-> "piping", body |-> chunks, stream |-> Concat(chunks),
     buffer |-> <<>>, enqueued |-> <<>>]

\* the transform takes a chunk of the upstream body
transform ==
    /\ relay.pc = "piping"
    /\ relay.body # <<>>
    /\ LET r == transformBuffer(relay.buffer \o decodeBytes(Head(relay.body), FALSE).text,
                                relay.enqueued)
       IN  relay' = [relay EXCEPT !.body = Tail(@), !.buffer = r.buffer,
                                  !.enqueued = r.enqueued]
    /\ UNCHANGED <<transactions, view, swr, chat, requests>>
    /\ UNCHANGED bookVars

\* the upstream body ends; the transform has no flush
transform_close ==
    /\ relay.pc = "piping"
    /\ relay.body = <<>>
    /\ relay' = [relay EXCEPT !.pc = "closed"]
    /\ UNCHANGED <<transactions, view, swr, chat, requests>>
    /\ UNCHANGED bookVars

InitRelay ==
    /\ store = [i \in {} |-> 0]
    /\ nextId = 0
    /\ payments = 0
    /\ clock = 0
    /\ pay = [p \in Procs |-> Idle]
    /\ response = Report("none", 0, 0)
    /\ ledger = [i \in {} |-> 0]
    /\ edits = 0
    /\ transactions = <<>>
    /\ view = NoView
    /\ swr = Unmounted
    /\ chat = NoChat
    /\ relay \in {Piping(chunks) : chunks \in UNION {Chunkings(s) : s \in UpstreamStreams}}
    /\ requests = <<>>

NextRelay == transform \/ transform_close

SpecRelay == InitRelay /\ [][NextRelay]_vars

\* the content of a line of the upstream text: the piece of a "data:" line
\* whose JSON parses and holds one, nothing for any other line
PieceOf(line) ==
    IF /\ startsWith(line, DataPrefix)
       /\ IsDelta(trim(substringFrom(line, Len(DataPrefix))))
    THEN Inner(trim(substringFrom(line, Len(DataPrefix))))
    ELSE <<>>

\* the pieces of all lines of a text, in order
RECURSIVE Pieces(_)
Pieces(lines) == IF lines = <<>> THEN <<>> ELSE PieceOf(Head(lines)) \o Pieces(Tail(lines))

\* C30: for every upstream stream of newline-terminated lines and every way of cutting its
\* bytes into chunks, the relayed text is the pieces of all "data:" lines whose JSON parses,
\* in upstream order and each once; a line that does not parse does not keep later lines
\* from being relayed.
C30_RelaysEveryParsedLineOnce ==
    relay.pc = "closed"
    => Concat(relay.enqueued) = encode(Pieces(split(StreamText(relay.stream), 10)))

====
